---- MODULE Spec2Model ----
(***************************************************************************)
(* Verification model of the pm_universe fetch pipeline:                   *)
(*   - utils.py    : chunk_list, parse_decimal, RateLimiter                *)
(*   - clob.py     : ClobClient._request_with_retry, fetch_all_prices      *)
(*   - gamma.py    : GammaClient._request_with_retry                       *)
(*   - runner.py   : the two limiters and the order of the two clients     *)
(*                                                                         *)
(* Three specifications share the definitions below:                       *)
(*   SpecPrices  : fetch_all_prices, data level (batches, merge, finalize) *)
(*   SpecMid     : the per-token finalisation on a wide set of price texts *)
(*   SpecLimiter : the retry loops of both clients over their RateLimiter, *)
(*                 with time                                               *)
(* Text (Python str) is a sequence of one-character strings, so that       *)
(* parsing and formatting are computed, not assumed.                       *)
(***************************************************************************)
EXTENDS Integers, Sequences, FiniteSets, TLC

VARIABLES
  \* ---- fetch_all_prices (clob.py) ----
  token_outcomes,    \* the input list: token ids, in input order
  batch_size,        \* items per batch
  concurrency,       \* max_workers of the pool
  book,              \* the price book the pricing service answers from
  ppc,               \* position of the calling thread in fetch_all_prices
  batches,           \* the request items, chunked: one entry per batch
  fut,               \* one future per batch: its state, attempt and outcome
  all_raw_responses, \* list of {batch_num, status, data}
  prices_by_token,   \* token_id -> (side -> price text)
  api_error_tokens,  \* set of token ids
  results,           \* list of PriceResult
  stats,             \* the counters returned with the results
  \* ---- per-token finalisation alone ----
  m_bid, m_ask, m_pc, m_res,
  \* ---- limiters and retry loops, timed ----
  lim,               \* limiter name -> [min_interval, next_allowed, lock]
  th,                \* thread -> its position in _request_with_retry
  queue,             \* number of batches submitted to the pool and not yet taken
  pagesLeft,         \* catalog page requests still to be made
  stage,             \* run_fetch: "catalog", "prices", "done", "aborted"
  hist,              \* observations per limiter: grants and rate-limit responses
  \* ---- extraction loop of run_fetch (runner.py 205-274) ----
  raw_events,        \* the events fetched from the catalog, in order
  max_markets,       \* 0 stands for None
  category_filter,   \* the empty text stands for None
  x_pc,              \* "idle", "loop", "done"
  x_i, x_j,          \* the event and the market the loops are at
  market_records,    \* list of market ids, one per MarketRecord
  all_token_outcomes, \* list of TokenOutcome
  counts,            \* the counters local to the loop
  manifest,          \* the RunManifest
  \* ---- run_fetch as a whole (runner.py 137-342) ----
  dry_run,
  sports,            \* whether sports_series_ids is given
  catalog,           \* per request target (series or tag): the events the service holds
  gamma_page_size,
  r_pc,              \* position of run_fetch
  f_series,          \* the series fetch_all_events is called for
  f_offset, f_page, f_all_events,  \* locals of fetch_all_events
  written,           \* the files written by the run, in the order of writing
  disk,              \* content of the prices table and of the latest copy
  price_requests,    \* batches requested from the price service
  manifest_json,     \* the manifest file on disk: absent, or the files index saved
  \* ---- one call of GammaClient.fetch_all_events (gamma.py 100-177) ----
  g_tag_id, g_series_id,   \* the empty text stands for None
  g_max_events,      \* 0 stands for None
  g_page_size, g_max_pages,
  g_pc,              \* "idle", "top", "awaiting", "after", "returned", "raised"
  g_offset, g_page, g_all_events,  \* locals of fetch_all_events
  g_params,          \* the query of the page request sent last
  g_sent,            \* page requests sent so far
  g_items,           \* items the service returned so far, over all pages
  g_short,           \* a page came back short, empty or not a list
  g_warned,          \* the max_pages warning was logged
  g_result,          \* the list returned
  \* ---- the list fields of one market (utils.py 49-68, gamma.py 157-158) ----
  c_outcomes, c_clobTokenIds,  \* the fields as the service sent them
  c_pc,              \* "idle", "raw", "parsed", "extracted"
  c_market,          \* the market with the parsed fields stored in it
  c_source,          \* the list a raw text was encoded from, or None
  c_tokens,          \* what extract_token_outcomes returns for the market
  \* ---- one call of KalshiClient.get_sports_markets (kalshi.py 109-151) ----
  k_limit,
  k_pc,              \* "idle", "called", "request", "top", "leave", "returned",
                     \* "raised", "exhausted"
  k_attempt,         \* the loop variable of _request_with_retry
  k_cursor, k_all_markets,  \* locals of get_sports_markets
  k_params,          \* the query of the page request sent last
  k_pages,           \* the pages received so far
  k_result           \* the list returned

pvars == <<token_outcomes, batch_size, concurrency, book, ppc, batches, fut,
           all_raw_responses, prices_by_token, api_error_tokens, results, stats>>
mvars == <<m_bid, m_ask, m_pc, m_res>>
lvars == <<lim, th, queue, pagesLeft, stage, hist>>
xvars == <<raw_events, max_markets, category_filter, x_pc, x_i, x_j,
           market_records, all_token_outcomes, counts, manifest>>
rvars == <<dry_run, sports, catalog, gamma_page_size, r_pc, f_series, f_offset,
           f_page, f_all_events, written, disk, price_requests, manifest_json>>
cvars == <<c_outcomes, c_clobTokenIds, c_pc, c_market, c_source, c_tokens>>
kvars == <<k_limit, k_pc, k_attempt, k_cursor, k_all_markets, k_params, k_pages,
           k_result>>
gvars == <<kvars, cvars, g_tag_id, g_series_id, g_max_events, g_page_size, g_max_pages, g_pc,
           g_offset, g_page, g_all_events, g_params, g_sent, g_items, g_short,
           g_warned, g_result>>
ovars == <<xvars, rvars, gvars>>
notx == <<pvars, mvars, lvars, rvars, gvars>>
vars == <<pvars, mvars, lvars, ovars>>

----------------------------------------------------------------------------
(* Bounds of the model *)

MaxTokens == 2
MaxBatch == 3
MaxBatches == 2
MaxConc == 2
MaxLen == 3
MaxInterval == 1
MaxRetryAfter == 2
MaxPages == 1
MaxJobs == 2
MaxMarkets == 2
MaxEvents == 2
MaxPageSize == 2
MaxPageCap == 2
MaxChars == 4
MaxFeed == 3
MaxCursors == 1
MaxLimit == 2
MaxItems == 2

(* Program constants *)

MAX_RETRIES == 3
INITIAL_BACKOFF == 1
DEFAULT_MAX_PAGES == 500

----------------------------------------------------------------------------
(* Text *)

DigitChars == <<"0", "1", "2", "3", "4", "5", "6", "7", "8", "9">>
Digits == {DigitChars[i] : i \in 1..10}
DigitVal(c) == (CHOOSE i \in 1..10 : DigitChars[i] = c) - 1

Max(a, b) == IF a >= b THEN a ELSE b

RECURSIVE Pow10(_)
Pow10(n) == IF n = 0 THEN 1 ELSE 10 * Pow10(n - 1)

\* the text with every "." removed
RECURSIVE DropPoint(_)
DropPoint(s) ==
  IF s = <<>> THEN <<>>
  ELSE IF Head(s) = "." THEN DropPoint(Tail(s))
  ELSE <<Head(s)>> \o DropPoint(Tail(s))

RECURSIVE DigitsToNat(_)
DigitsToNat(s) ==
  IF s = <<>> THEN 0
  ELSE 10 * DigitsToNat(SubSeq(s, 1, Len(s) - 1)) + DigitVal(s[Len(s)])

RECURSIVE NatToDigits(_)
NatToDigits(n) ==
  IF n < 10 THEN <<DigitChars[n + 1]>>
  ELSE NatToDigits(n \div 10) \o <<DigitChars[(n % 10) + 1]>>

RECURSIVE Zeros(_)
Zeros(n) == IF n <= 0 THEN <<>> ELSE <<"0">> \o Zeros(n - 1)

----------------------------------------------------------------------------
(* decimal.Decimal, as far as the pipeline uses it: a value is             *)
(* coef * 10^(-scale); NoneDec is Python's None.                           *)

NoneDec == [isNone |-> TRUE, coef |-> 0, scale |-> 0]
Dec(c, s) == [isNone |-> FALSE, coef |-> c, scale |-> s]

\* Decimal(text) accepts: digits, with at most one point, at least one digit.
\* (Sign, exponent, NaN and Infinity spellings are not in the model's alphabet.)
DecimalSyntax(s) ==
  /\ Len(s) > 0
  /\ \A i \in 1..Len(s) : s[i] \in Digits \cup {"."}
  /\ Cardinality({i \in 1..Len(s) : s[i] = "."}) <= 1
  /\ \E i \in 1..Len(s) : s[i] \in Digits

PointPos(s) == CHOOSE i \in 1..Len(s) : s[i] = "."

\* utils.parse_decimal: Decimal(str(value)), None on InvalidOperation
parse_decimal(s) ==
  IF ~DecimalSyntax(s) THEN NoneDec
  ELSE Dec(DigitsToNat(DropPoint(s)),
           IF \E i \in 1..Len(s) : s[i] = "." THEN Len(s) - PointPos(s) ELSE 0)

\* Decimal.__add__: exact, the exponent is the smaller of the two
DecAdd(a, b) ==
  LET S == Max(a.scale, b.scale)
  IN Dec(a.coef * Pow10(S - a.scale) + b.coef * Pow10(S - b.scale), S)

\* a variant that halves with integer division, losing the last digit
DecHalfTruncating(a) == Dec(a.coef \div 2, a.scale)

\* Decimal.__truediv__ by Decimal(2): exact; the exponent of the dividend is
\* kept when the quotient fits it, one more digit otherwise
DecHalf(a) ==
  IF a.coef % 2 = 0 THEN Dec(a.coef \div 2, a.scale)
  ELSE Dec(a.coef * 5, a.scale + 1)

\* str(Decimal), plain notation (exponent <= 0 and adjusted exponent >= -6)
DecStr(d) ==
  LET ds == NatToDigits(d.coef)
      padded == Zeros(d.scale + 1 - Len(ds)) \o ds
      n == Len(padded)
  IN IF d.scale = 0 THEN ds
     ELSE SubSeq(padded, 1, n - d.scale) \o <<".">> \o SubSeq(padded, n - d.scale + 1, n)

----------------------------------------------------------------------------
(* The pricing service, as the client sees it *)

Sides == {"BUY", "SELL"}
TokenIds == {"t1", "t2"}
EmptyText == <<>>
EmptyDict == [x \in {} |-> <<>>]

\* The price book the service answers from: two exact decimals for one token,
\* a text that is no decimal and an empty text for the other.
Books ==
  { [t \in TokenIds |-> [s \in Sides |->
       IF t = "t1" THEN (IF s = "BUY" THEN <<"0", ".", "5", "5">> ELSE <<"0", ".", "5">>)
       ELSE (IF s = "BUY" THEN <<"x">> ELSE EmptyText)]] }

\* A response to one POST /prices: a transport error (httpx.RequestError), or
\* a status with a body; the body of a 200 is a JSON object, another non-empty
\* JSON value, or not JSON at all; a 429 has a Retry-After header that is a
\* number of seconds or not a number.
Response(err, status, json, data, retry_after) ==
  [err |-> err, status |-> status, json |-> json, data |-> data,
   retry_after |-> retry_after]

----------------------------------------------------------------------------
(* clob.py: request items and batches *)

\* clob.py 128-131: BUY then SELL for every token, token-major
request_items(tokens) ==
  [k \in 1..(2 * Len(tokens)) |->
     [token_id |-> tokens[(k + 1) \div 2],
      side |-> IF k % 2 = 1 THEN "BUY" ELSE "SELL"]]

\* a variant that yields full chunks only
chunk_list_full_only(items, size) ==
  [j \in 1..(Len(items) \div size) |->
     SubSeq(items, (j - 1) * size + 1, j * size)]

\* utils.chunk_list: items[i : i + size] for i in range(0, len(items), size)
chunk_list(items, size) ==
  LET n == (Len(items) + size - 1) \div size
  IN [j \in 1..n |->
        SubSeq(items, (j - 1) * size + 1,
               IF j * size <= Len(items) THEN j * size ELSE Len(items))]

BatchOf(b) == batches[b + 1]
BatchTokens(b) == {BatchOf(b)[k].token_id : k \in 1..Len(BatchOf(b))}
BatchPairs(b) == {<<BatchOf(b)[k].token_id, BatchOf(b)[k].side>> : k \in 1..Len(BatchOf(b))}

\* The JSON object a 200 carries when the service answers the items in S
DataFor(S) ==
  [t \in {p[1] : p \in S} |->
     [s \in {p[2] : p \in {q \in S : q[1] = t}} |-> book[t][s]]]

\* Every response the service may give to the POST of batch b
Responses(b) ==
  {Response(FALSE, 200, "dict", DataFor(S), 0) : S \in SUBSET BatchPairs(b)}
  \cup {Response(FALSE, 200, j, EmptyDict, 0) : j \in {"list", "invalid"}}
  \cup {Response(FALSE, 429, "none", EmptyDict, ra) : ra \in {1, -1}}
  \cup {Response(FALSE, c, "none", EmptyDict, 0) : c \in {404, 500}}
  \cup {Response(TRUE, 0, "none", EmptyDict, 0)}

----------------------------------------------------------------------------
(* clob.py 59-98: one pass of the retry loop, after the POST came back.    *)
(* retry_after = -1 stands for a Retry-After header float() rejects.       *)

RECURSIVE Pow2(_)
Pow2(n) == IF n = 0 THEN 1 ELSE 2 * Pow2(n - 1)

BackoffLinear(attempt) == INITIAL_BACKOFF * (attempt + 1)

\* clob.py 80, 93, gamma.py 81, 91: INITIAL_BACKOFF * (2 ** attempt)
Backoff(attempt) == INITIAL_BACKOFF * Pow2(attempt)

Step(act, status, isdict, data, sleep) ==
  [act |-> act, status |-> status, isdict |-> isdict, data |-> data, sleep |-> sleep]

ClobHandle(r, attempt) ==
  IF r.err THEN Step("backoff", 0, TRUE, EmptyDict, Backoff(attempt))
  ELSE IF r.status = 429 THEN
    (IF r.retry_after < 0 THEN Step("raise", 0, TRUE, EmptyDict, 0)
     ELSE Step("defer", 0, TRUE, EmptyDict, r.retry_after))
  ELSE IF r.status >= 500 THEN Step("backoff", 0, TRUE, EmptyDict, Backoff(attempt))
  ELSE IF r.status = 200 THEN
    (IF r.json = "invalid" THEN Step("raise", 0, TRUE, EmptyDict, 0)
     ELSE Step("return", 200, r.json = "dict", r.data, 0))
  ELSE Step("return", r.status, TRUE, EmptyDict, 0)

----------------------------------------------------------------------------
(* clob.py 190-233: the PriceResult of one token *)

Get(d, k, default) == IF k \in DOMAIN d THEN d[k] ELSE default

\* a variant that reads the bid from the BUY side
BidOfBuySide(price_data) == Get(price_data, "BUY", EmptyText)

\* clob.py 195-196: bid = SELL price, ask = BUY price
BidOf(price_data) == Get(price_data, "SELL", EmptyText)
AskOf(price_data) == Get(price_data, "BUY", EmptyText)

\* clob.py 199-205
MidOf(bid_str, ask_str) ==
  IF bid_str # EmptyText /\ ask_str # EmptyText
  THEN LET bid_dec == parse_decimal(bid_str)
           ask_dec == parse_decimal(ask_str)
       IN IF ~bid_dec.isNone /\ ~ask_dec.isNone
          THEN DecStr(DecHalf(DecAdd(bid_dec, ask_dec)))
          ELSE EmptyText
  ELSE EmptyText

\* a variant that tests for a missing price before the error flag
StatusOfMissingFirst(flagged, bid_str, ask_str) ==
  IF bid_str = EmptyText /\ ask_str = EmptyText THEN "missing_price"
  ELSE IF flagged THEN "api_error"
  ELSE "ok"

\* a variant that takes a token for priced only when both sides are there
StatusOfBothSides(flagged, bid_str, ask_str) ==
  IF flagged THEN "api_error"
  ELSE IF bid_str = EmptyText \/ ask_str = EmptyText THEN "missing_price"
  ELSE "ok"

\* clob.py 208-216
StatusOf(flagged, bid_str, ask_str) ==
  IF flagged THEN "api_error"
  ELSE IF bid_str = EmptyText /\ ask_str = EmptyText THEN "missing_price"
  ELSE "ok"

\* clob.py 191-233
PriceResult(token_id, price_data, flagged) ==
  LET bid_str == BidOf(price_data)
      ask_str == AskOf(price_data)
  IN [token_id |-> token_id,
      bid |-> bid_str,
      ask |-> ask_str,
      mid |-> MidOf(bid_str, ask_str),
      status |-> StatusOf(flagged, bid_str, ask_str)]

\* the input list with later repetitions of a token id removed
RECURSIVE Dedup(_)
Dedup(tokens) ==
  IF tokens = <<>> THEN <<>>
  ELSE LET front == Dedup(SubSeq(tokens, 1, Len(tokens) - 1))
           last == tokens[Len(tokens)]
       IN IF \E i \in 1..Len(front) : front[i] = last THEN front
          ELSE Append(front, last)

\* a variant that walks token_lookup (one entry per distinct token id)
\* instead of the input list
BuildResultsPerLookup(tokens, pbt, errs) ==
  [i \in 1..Len(Dedup(tokens)) |->
     PriceResult(Dedup(tokens)[i], Get(pbt, Dedup(tokens)[i], EmptyDict),
                 Dedup(tokens)[i] \in errs)]

\* clob.py 190-233: one result per entry of the input list, in input order
BuildResults(tokens, pbt, errs) ==
  [i \in 1..Len(tokens) |->
     PriceResult(tokens[i], Get(pbt, tokens[i], EmptyDict), tokens[i] \in errs)]

\* a variant that counts token ids instead of results
CountStatusPerToken(res, st) ==
  Cardinality({res[i].token_id : i \in {k \in 1..Len(res) : res[k].status = st}})

CountStatus(res, st) == Cardinality({i \in 1..Len(res) : res[i].status = st})

\* a variant that replaces the sides a token already has
MergeDataReplacing(pbt, data) ==
  [t \in DOMAIN pbt \cup DOMAIN data |->
     IF t \in DOMAIN data THEN data[t] ELSE pbt[t]]

\* clob.py 163-169: merge one 200 response into the per-token map
MergeData(pbt, data) ==
  [t \in DOMAIN pbt \cup DOMAIN data |->
     IF t \notin DOMAIN data THEN pbt[t]
     ELSE LET old == Get(pbt, t, EmptyDict)
          IN [s \in DOMAIN old \cup DOMAIN data[t] |->
                IF s \in DOMAIN data[t] THEN data[t][s] ELSE old[s]]]

----------------------------------------------------------------------------
(* fetch_all_prices: the calling thread and the pool's workers *)

Queued == [st |-> "queued", attempt |-> 0, how |-> "none", status |-> 0,
           isdict |-> TRUE, data |-> EmptyDict]

Running(b) == {x \in DOMAIN fut : fut[x].st = "running"}

InitPrices ==
  /\ token_outcomes \in UNION {[1..n -> TokenIds] : n \in 0..MaxTokens}
  /\ batch_size \in 1..MaxBatch
  /\ Len(chunk_list(request_items(token_outcomes), batch_size)) <= MaxBatches
  /\ concurrency \in 1..MaxConc
  /\ book \in Books
  /\ ppc = "start"
  /\ batches = <<>>
  /\ fut = EmptyDict
  /\ all_raw_responses = <<>>
  /\ prices_by_token = EmptyDict
  /\ api_error_tokens = {}
  /\ results = <<>>
  /\ stats = [tokens_priced_ok |-> 0, tokens_missing_price |-> 0, api_errors |-> 0]

\* clob.py 126-149: build the items, chunk them, submit one future per batch
Submit ==
  /\ ppc = "start"
  /\ batches' = chunk_list(request_items(token_outcomes), batch_size)
  /\ fut' = [b \in 0..(Len(batches') - 1) |-> Queued]
  /\ ppc' = "collect"
  /\ UNCHANGED <<token_outcomes, batch_size, concurrency, book, all_raw_responses,
                 prices_by_token, api_error_tokens, results, stats>>
  /\ UNCHANGED <<mvars, lvars, ovars>>

\* a variant with a worker for every batch
StartBatchUnbounded(b) ==
  /\ ppc \in {"collect", "unwinding"}
  /\ b \in DOMAIN fut
  /\ fut[b].st = "queued"
  /\ \A x \in DOMAIN fut : x < b => fut[x].st # "queued"
  /\ fut' = [fut EXCEPT ![b].st = "running"]
  /\ UNCHANGED <<token_outcomes, batch_size, concurrency, book, ppc, batches, all_raw_responses,
                 prices_by_token, api_error_tokens, results, stats>>
  /\ UNCHANGED <<mvars, lvars, ovars>>

\* ThreadPoolExecutor: an idle worker takes the oldest queued batch, also
\* while the pool is shut down with wait=True (the exit of the with block,
\* clob.py 145), which cancels no queued work
StartBatch(b) ==
  /\ ppc \in {"collect", "unwinding"}
  /\ b \in DOMAIN fut
  /\ fut[b].st = "queued"
  /\ \A x \in DOMAIN fut : x < b => fut[x].st # "queued"
  /\ Cardinality(Running(b)) < concurrency
  /\ fut' = [fut EXCEPT ![b].st = "running"]
  /\ UNCHANGED <<token_outcomes, batch_size, concurrency, book, ppc, batches, all_raw_responses,
                 prices_by_token, api_error_tokens, results, stats>>
  /\ UNCHANGED <<mvars, lvars, ovars>>

\* clob.py 59-98, 100-106: one pass of the retry loop of batch b (limiter
\* slot, POST, response r); the loop falls through after MAX_RETRIES passes
Attempt(b, r) ==
  /\ b \in DOMAIN fut
  /\ fut[b].st = "running"
  /\ LET h == ClobHandle(r, fut[b].attempt)
         last == fut[b].attempt + 1 >= MAX_RETRIES
     IN fut' = [fut EXCEPT ![b] =
          IF h.act = "return"
            THEN [st |-> "done", attempt |-> 0,
                  how |-> "returned", status |-> h.status,
                  isdict |-> h.isdict, data |-> h.data]
          ELSE IF h.act = "raise"
            THEN [st |-> "done", attempt |-> 0,
                  how |-> "raised", status |-> 0, isdict |-> TRUE, data |-> EmptyDict]
          ELSE IF last
            THEN [st |-> "done", attempt |-> 0,
                  how |-> "exhausted", status |-> 0, isdict |-> TRUE, data |-> EmptyDict]
          ELSE [@ EXCEPT !.attempt = @ + 1]]
  /\ UNCHANGED <<token_outcomes, batch_size, concurrency, book, ppc, batches, all_raw_responses,
                 prices_by_token, api_error_tokens, results, stats>>
  /\ UNCHANGED <<mvars, lvars, ovars>>

\* a variant that also flags the tokens of a batch answered 200 with nothing
MergeFlaggingEmpty(b) ==
  /\ ppc = "collect"
  /\ b \in DOMAIN fut
  /\ fut[b].st = "done"
  /\ fut' = [fut EXCEPT ![b].st = "merged"]
  /\ IF fut[b].how = "raised"
       THEN /\ api_error_tokens' = api_error_tokens \cup BatchTokens(b)
            /\ UNCHANGED <<all_raw_responses, prices_by_token>>
       ELSE /\ all_raw_responses' = Append(all_raw_responses,
                 [batch_num |-> b, status |-> fut[b].status, data |-> fut[b].data])
            /\ IF fut[b].status = 200 /\ fut[b].isdict /\ fut[b].data # EmptyDict
                 THEN /\ prices_by_token' = MergeData(prices_by_token, fut[b].data)
                      /\ UNCHANGED api_error_tokens
                 ELSE /\ api_error_tokens' = api_error_tokens \cup BatchTokens(b)
                      /\ UNCHANGED prices_by_token
  /\ UNCHANGED <<token_outcomes, batch_size, concurrency, book, ppc, batches, results, stats>>
  /\ UNCHANGED <<mvars, lvars, ovars>>

\* clob.py 151-180: the body of the as_completed loop for the future of b
Merge(b) ==
  /\ ppc = "collect"
  /\ b \in DOMAIN fut
  /\ fut[b].st = "done"
  /\ fut' = [fut EXCEPT ![b].st = "merged"]
  /\ IF fut[b].how = "raised"
       THEN \* future.result() raises: lines 176-180
            /\ api_error_tokens' = api_error_tokens \cup BatchTokens(b)
            /\ UNCHANGED <<all_raw_responses, prices_by_token>>
       ELSE /\ all_raw_responses' = Append(all_raw_responses,
                 [batch_num |-> b, status |-> fut[b].status, data |-> fut[b].data])
            /\ IF fut[b].status = 200 /\ (~fut[b].isdict \/ fut[b].data # EmptyDict)
                 THEN IF fut[b].isdict
                        THEN /\ prices_by_token' = MergeData(prices_by_token, fut[b].data)
                             /\ UNCHANGED api_error_tokens
                        ELSE \* data.items() raises: lines 176-180
                             /\ api_error_tokens' = api_error_tokens \cup BatchTokens(b)
                             /\ UNCHANGED prices_by_token
                 ELSE IF fut[b].status # 200
                        THEN /\ api_error_tokens' = api_error_tokens \cup BatchTokens(b)
                             /\ UNCHANGED prices_by_token
                        ELSE UNCHANGED <<prices_by_token, api_error_tokens>>
  /\ UNCHANGED <<token_outcomes, batch_size, concurrency, book, ppc, batches, results, stats>>
  /\ UNCHANGED <<mvars, lvars, ovars>>

\* clob.py 182-235: all futures collected, the pool is shut down
Finalize ==
  /\ ppc = "collect"
  /\ \A b \in DOMAIN fut : fut[b].st = "merged"
  /\ results' = BuildResults(token_outcomes, prices_by_token, api_error_tokens)
  /\ stats' = [tokens_priced_ok |-> CountStatus(results', "ok"),
               tokens_missing_price |-> CountStatus(results', "missing_price"),
               api_errors |-> CountStatus(results', "api_error")]
  /\ ppc' = "done"
  /\ UNCHANGED <<token_outcomes, batch_size, concurrency, book, batches, fut, all_raw_responses,
                 prices_by_token, api_error_tokens>>
  /\ UNCHANGED <<mvars, lvars, ovars>>

\* values of the variables a specification does not use
MidIdle == m_bid = <<>> /\ m_ask = <<>> /\ m_pc = "idle" /\ m_res = EmptyDict
LimiterIdle ==
  /\ lim = EmptyDict /\ th = EmptyDict /\ queue = 0
  /\ pagesLeft = 0 /\ stage = "idle" /\ hist = EmptyDict
NoCounts ==
  [total_markets_processed |-> 0, markets_with_tokens |-> 0,
   markets_skipped_no_tokens |-> 0, markets_skipped_mismatched |-> 0,
   markets_not_clob_tradable |-> 0]
\* models.py 139-157: a fresh RunManifest
NewManifest ==
  [markets_total |-> 0, markets_with_tokens |-> 0, markets_skipped_no_tokens |-> 0,
   markets_skipped_mismatched_arrays |-> 0, markets_not_clob_tradable |-> 0,
   tokens_total |-> 0, tokens_priced_ok |-> 0, tokens_missing_price |-> 0,
   api_errors |-> 0, price_batches |-> 0, files |-> {}]
ExtractIdle ==
  /\ raw_events = <<>> /\ max_markets = 0 /\ category_filter = ""
  /\ x_pc = "idle" /\ x_i = 1 /\ x_j = 1
  /\ market_records = <<>> /\ all_token_outcomes = <<>>
  /\ counts = NoCounts /\ manifest = NewManifest
RunIdle ==
  /\ dry_run = FALSE /\ sports = FALSE /\ catalog = <<>> /\ gamma_page_size = 1
  /\ r_pc = "idle" /\ f_series = 1 /\ f_offset = 0 /\ f_page = 0
  /\ f_all_events = <<>> /\ written = <<>>
  /\ disk = [prices_csv |-> [state |-> "absent", rows |-> <<>>],
             latest_csv |-> [state |-> "absent", rows |-> <<>>]]
  /\ manifest_json = [state |-> "absent", files |-> {}]
  /\ price_requests = 0
NoRequest == [limit |-> 0, offset |-> 0, tag_id |-> "", series_id |-> ""]
CoerceIdle ==
  /\ c_outcomes = "" /\ c_clobTokenIds = "" /\ c_pc = "idle"
  /\ c_market = "" /\ c_source = "" /\ c_tokens = ""
CallIdle ==
  /\ g_tag_id = "" /\ g_series_id = "" /\ g_max_events = 0
  /\ g_page_size = 1 /\ g_max_pages = 0 /\ g_pc = "idle"
  /\ g_offset = 0 /\ g_page = 0 /\ g_all_events = <<>>
  /\ g_params = NoRequest /\ g_sent = 0 /\ g_items = 0
  /\ g_short = FALSE /\ g_warned = FALSE /\ g_result = <<>>
KalshiIdle ==
  /\ k_limit = 0 /\ k_pc = "idle" /\ k_attempt = 0 /\ k_cursor = ""
  /\ k_all_markets = <<>> /\ k_params = "" /\ k_pages = <<>> /\ k_result = <<>>
EventsIdle == CallIdle /\ CoerceIdle /\ KalshiIdle
OtherIdle == ExtractIdle /\ RunIdle /\ EventsIdle
PricesIdle ==
  /\ token_outcomes = <<>> /\ batch_size = 1 /\ concurrency = 1
  /\ book = CHOOSE bk \in Books : TRUE
  /\ ppc = "idle" /\ batches = <<>> /\ fut = EmptyDict /\ all_raw_responses = <<>>
  /\ prices_by_token = EmptyDict /\ api_error_tokens = {} /\ results = <<>>
  /\ stats = [tokens_priced_ok |-> 0, tokens_missing_price |-> 0, api_errors |-> 0]

StartAny == \E b \in DOMAIN fut : StartBatch(b)
AttemptAny == \E b \in DOMAIN fut : \E r \in Responses(b) : Attempt(b, r)
MergeAny == \E b \in DOMAIN fut : Merge(b)

InitP == InitPrices /\ MidIdle /\ LimiterIdle /\ OtherIdle
NextPrices == Submit \/ StartAny \/ AttemptAny \/ MergeAny \/ Finalize

SpecPrices == InitP /\ [][NextPrices]_vars

----------------------------------------------------------------------------
(* The per-token finalisation on its own: every pair of price texts of at  *)
(* most MaxLen characters is aggregated for one token and finalised.       *)

Alphabet == {"0", "5", ".", "x"}
Texts == UNION {[1..k -> Alphabet] : k \in 0..MaxLen}

InitMid ==
  /\ m_bid \in Texts
  /\ m_ask \in Texts
  /\ m_pc = "input"
  /\ m_res = EmptyDict

\* clob.py 163-169 then 190-233 for one token whose SELL and BUY prices are
\* the texts m_bid and m_ask
MidFinalize ==
  /\ m_pc = "input"
  /\ m_res' = PriceResult("t1",
                 MergeData(EmptyDict, [t \in {"t1"} |-> [s \in Sides |->
                     IF s = "SELL" THEN m_bid ELSE m_ask]])["t1"], FALSE)
  /\ m_pc' = "done"
  /\ UNCHANGED <<m_bid, m_ask, pvars, lvars, ovars>>

InitM == InitMid /\ PricesIdle /\ LimiterIdle /\ OtherIdle
NextMid == MidFinalize
SpecMid == InitM /\ [][NextMid]_vars

----------------------------------------------------------------------------
(* utils.RateLimiter, one per client (runner.py 155-156), and the retry     *)
(* loops of the two clients, with time in seconds.  Thread 0 is the thread  *)
(* of run_fetch, which drives the catalog client; threads 1..n are the      *)
(* pool's workers, which drive the price client.                            *)
(*                                                                          *)
(* The code reads one monotonic clock and only compares and subtracts its   *)
(* readings, so every time is kept as an offset from the present: Now is    *)
(* 0, a deadline d seconds ahead is d, a deadline that has passed is 0, and *)
(* Tick moves every offset by one second.                                   *)

Now == 0
Free == -1
None == -1
\* a variant with one limiter for both clients
LimOfShared(t) == "gamma"

\* runner.py 154-156, 174, 299: the catalog client (thread 0) is given
\* gamma_limiter, the price client (the workers) clob_limiter
LimOf(t) == IF t = 0 THEN "gamma" ELSE "clob"
Earlier(x) == IF x > 0 THEN x - 1 ELSE 0

\* utils.py 114-117: the time wait() sleeps to
SleepUntil(t_now, next_allowed) ==
  IF t_now < next_allowed THEN next_allowed ELSE t_now

\* a variant that moves the deadline to the time of the grant
GrantDeadlineNoInterval(t_now, min_interval) == t_now

\* utils.py 119: the deadline wait() leaves behind
GrantDeadline(t_now, min_interval) == t_now + min_interval

\* a variant that assigns the new deadline unconditionally
set_wait_until_unguarded(next_allowed, t_now, seconds_from_now) ==
  t_now + seconds_from_now

\* utils.py 121-126: the deadline set_wait_until leaves behind
set_wait_until(next_allowed, t_now, seconds_from_now) ==
  LET new_time == t_now + seconds_from_now
  IN IF new_time > next_allowed THEN new_time ELSE next_allowed

\* a variant that retries after a client error
GammaHandleRetrying(r, attempt) ==
  IF r.err THEN Step("backoff", 0, TRUE, EmptyDict, Backoff(attempt))
  ELSE IF r.status = 429 THEN
    (IF r.retry_after < 0 THEN Step("raise", 0, TRUE, EmptyDict, 0)
     ELSE Step("defer", 0, TRUE, EmptyDict, r.retry_after))
  ELSE IF r.status >= 400 THEN Step("backoff", 0, TRUE, EmptyDict, Backoff(attempt))
  ELSE Step("return", r.status, TRUE, EmptyDict, 0)

\* gamma.py 72-94: one pass of the catalog client's loop after the GET came
\* back; raise_for_status (gamma.py 86) raises on a 4xx and returns on every
\* 2xx, so that a 2xx other than 200 leaves the loop as a 200 does
GammaHandle(r, attempt) ==
  IF r.err THEN Step("backoff", 0, TRUE, EmptyDict, Backoff(attempt))
  ELSE IF r.status = 429 THEN
    (IF r.retry_after < 0 THEN Step("raise", 0, TRUE, EmptyDict, 0)
     ELSE Step("defer", 0, TRUE, EmptyDict, r.retry_after))
  ELSE IF r.status >= 500 THEN Step("backoff", 0, TRUE, EmptyDict, Backoff(attempt))
  ELSE IF r.status \in 200..299 THEN Step("return", r.status, TRUE, EmptyDict, 0)
  ELSE Step("raise", r.status, TRUE, EmptyDict, 0)

Handle(t, r, attempt) ==
  IF t = 0 THEN GammaHandle(r, attempt) ELSE ClobHandle(r, attempt)

\* a variant in which a rate-limit response does not use up an attempt
NextAttemptFreeDefer(attempt, act) ==
  IF act = "defer" THEN attempt ELSE attempt + 1

\* clob.py 59, gamma.py 59: for attempt in range(MAX_RETRIES)
NextAttempt(attempt, act) == attempt + 1

\* a variant in which the retry after a rate-limit response skips wait()
RetryPcSkipWait(act) == IF act = "defer" THEN "post" ELSE "wait_lock"

\* clob.py 60, gamma.py 60: every pass of the loop starts with wait()
RetryPc(act) == "wait_lock"

\* the responses the retry loops tell apart; a 429 carries a Retry-After of
\* whole seconds (an absent header is read as 5, clob.py 73, gamma.py 74) or
\* one that float() rejects
TimedResponses ==
  {Response(FALSE, c, "dict", EmptyDict, 0) : c \in {200, 201}}
  \cup {Response(FALSE, 429, "none", EmptyDict, ra) :
          ra \in (1..MaxRetryAfter) \cup {-1}}
  \cup {Response(FALSE, c, "none", EmptyDict, 0) : c \in {404, 500}}
  \cup {Response(TRUE, 0, "none", EmptyDict, 0)}

\* pc: the position in the loop; attempt: the loop variable; wake: the end of
\* the current sleep, or the Retry-After about to be passed on; posts: the
\* requests sent for the current page or batch; slot: slots granted to the
\* thread and not yet used for a request; status: the status the catalog
\* client's loop was left with (0 inside the loop, and when it was left
\* without one); a worker's status goes into the result of its batch, which
\* the model of fetch_all_prices keeps
IdleThread ==
  [pc |-> "idle", attempt |-> 0, wake |-> 0, posts |-> 0, slot |-> 0, status |-> 0]

\* since_grant: seconds since the last slot was granted, counted up to
\* min_interval (None before the first); defer_left: seconds left of the
\* retry delays of the rate-limit responses received so far
NoHist == [since_grant |-> None, defer_left |-> 0]

InitLimiter ==
  /\ \E i \in 1..MaxInterval :
       lim = [l \in {"gamma", "clob"} |->
                [min_interval |-> i, next_allowed |-> Now, lock |-> Free]]
  /\ th = [t \in 0..MaxConc |-> IdleThread]
  /\ queue \in 0..MaxJobs
  /\ pagesLeft \in 1..MaxPages
  /\ stage = "catalog"
  /\ hist = [l \in {"gamma", "clob"} |-> NoHist]

\* one second passes
Tick ==
  /\ lim' = [l \in DOMAIN lim |-> [lim[l] EXCEPT !.next_allowed = Earlier(@)]]
  /\ th' = [t \in DOMAIN th |->
              IF th[t].pc \in {"wait_sleep", "backoff"}
                THEN [th[t] EXCEPT !.wake = Earlier(@)] ELSE th[t]]
  /\ hist' = [l \in DOMAIN hist |->
                [hist[l] EXCEPT !.defer_left = Earlier(@),
                                !.since_grant =
                                   IF @ # None /\ @ < lim[l].min_interval
                                     THEN @ + 1 ELSE @]]
  /\ UNCHANGED <<queue, pagesLeft, stage, pvars, mvars, ovars>>

\* gamma.py 145: the catalog client asks for the next page
BeginPage ==
  /\ stage = "catalog"
  /\ th[0].pc = "idle"
  /\ pagesLeft > 0
  /\ th' = [th EXCEPT ![0] = [IdleThread EXCEPT !.pc = "wait_lock"]]
  /\ UNCHANGED <<lim, queue, pagesLeft, stage, hist, pvars, mvars, ovars>>

\* runner.py 198-306: the catalog is complete, the batches are submitted
CatalogDone ==
  /\ stage = "catalog"
  /\ th[0].pc = "idle"
  /\ pagesLeft = 0
  /\ stage' = "prices"
  /\ UNCHANGED <<lim, th, queue, pagesLeft, hist, pvars, mvars, ovars>>

\* clob.py 100-106: an idle worker takes the next batch; the pool's workers
\* are interchangeable, and the idle one of least index takes it
TakeBatch(t) ==
  /\ stage = "prices"
  /\ t # 0
  /\ th[t].pc = "idle"
  /\ \A u \in 1..(t - 1) : th[u].pc # "idle"
  /\ queue > 0
  /\ queue' = queue - 1
  /\ th' = [th EXCEPT ![t] = [IdleThread EXCEPT !.pc = "wait_lock"]]
  /\ UNCHANGED <<lim, pagesLeft, stage, hist, pvars, mvars, ovars>>

\* clob.py 145-181: the pool is joined
PricesDone ==
  /\ stage = "prices"
  /\ queue = 0
  /\ \A t \in DOMAIN th : th[t].pc = "idle"
  /\ stage' = "done"
  /\ UNCHANGED <<lim, th, queue, pagesLeft, hist, pvars, mvars, ovars>>

\* utils.py 113-117: wait() takes the mutex, reads the clock and starts to
\* sleep (for no time when the deadline has passed), holding the mutex
WaitEnter(t) ==
  /\ th[t].pc = "wait_lock"
  /\ lim[LimOf(t)].lock = Free
  /\ lim' = [lim EXCEPT ![LimOf(t)].lock = t]
  /\ th' = [th EXCEPT ![t].pc = "wait_sleep",
                      ![t].wake = SleepUntil(Now, lim[LimOf(t)].next_allowed)]
  /\ UNCHANGED <<queue, pagesLeft, stage, hist, pvars, mvars, ovars>>

\* a variant in which wait() returns without releasing the mutex
WaitGrantHoldingLock(t) ==
  /\ th[t].pc = "wait_sleep"
  /\ Now >= th[t].wake
  /\ lim' = [lim EXCEPT ![LimOf(t)].next_allowed =
                           GrantDeadline(Now, lim[LimOf(t)].min_interval)]
  /\ th' = [th EXCEPT ![t].pc = "post", ![t].slot = @ + 1]
  /\ hist' = [hist EXCEPT ![LimOf(t)].since_grant = 0]
  /\ UNCHANGED <<queue, pagesLeft, stage, pvars, mvars, ovars>>

\* utils.py 117-119: the sleep is over; wait() reads the clock again, sets the
\* deadline, releases the mutex and returns: the slot is granted
WaitGrant(t) ==
  /\ th[t].pc = "wait_sleep"
  /\ Now >= th[t].wake
  /\ lim' = [lim EXCEPT ![LimOf(t)].lock = Free,
                        ![LimOf(t)].next_allowed =
                           GrantDeadline(Now, lim[LimOf(t)].min_interval)]
  /\ th' = [th EXCEPT ![t].pc = "post", ![t].slot = @ + 1]
  /\ hist' = [hist EXCEPT ![LimOf(t)].since_grant = 0]
  /\ UNCHANGED <<queue, pagesLeft, stage, pvars, mvars, ovars>>

\* clob.py 64-95, gamma.py 64-94: the request is sent and a response (or a
\* transport error) comes back
Post(t, r) ==
  /\ th[t].pc = "post"
  /\ LET h == Handle(t, r, th[t].attempt)
     IN /\ th' = [th EXCEPT ![t] =
                [@ EXCEPT !.posts = @ + 1, !.slot = @ - 1,
                          !.pc = IF h.act = "return" THEN "returned"
                                 ELSE IF h.act = "raise" THEN "raised"
                                 ELSE h.act,
                          !.status = IF t = 0 /\ h.act \in {"return", "raise"}
                                       THEN h.status ELSE 0,
                          !.wake = IF h.act = "backoff" THEN Now + h.sleep
                                   ELSE IF h.act = "defer" THEN h.sleep
                                   ELSE 0]]
        /\ hist' = [hist EXCEPT ![LimOf(t)].defer_left =
                      IF h.act = "defer" /\ h.sleep > @ THEN h.sleep ELSE @]
  /\ UNCHANGED <<lim, queue, pagesLeft, stage, pvars, mvars, ovars>>

\* the loop goes on to its next pass, or falls through after MAX_RETRIES
\* passes (clob.py 97, gamma.py 96)
Continue(t, act) ==
  LET a == NextAttempt(th[t].attempt, act)
  IN th' = [th EXCEPT ![t].attempt = a, ![t].wake = 0,
                      ![t].pc = IF a < MAX_RETRIES THEN RetryPc(act)
                                ELSE "exhausted"]

\* clob.py 75-76, gamma.py 76-77 with utils.py 121-126: set_wait_until takes
\* the mutex, reads the clock and raises the deadline if the new one is later
SetWaitUntil(t) ==
  /\ th[t].pc = "defer"
  /\ lim[LimOf(t)].lock = Free
  /\ LET old == lim[LimOf(t)].next_allowed
         new == set_wait_until(old, Now, th[t].wake)
     IN lim' = [lim EXCEPT ![LimOf(t)].next_allowed = new]
  /\ Continue(t, "defer")
  /\ UNCHANGED <<queue, pagesLeft, stage, hist, pvars, mvars, ovars>>

\* clob.py 81-82 and 94-95, gamma.py 83-84 and 93-94: the backoff sleep is over
BackoffWake(t) ==
  /\ th[t].pc = "backoff"
  /\ Now >= th[t].wake
  /\ Continue(t, "backoff")
  /\ UNCHANGED <<lim, queue, pagesLeft, stage, hist, pvars, mvars, ovars>>

\* _request_with_retry is left.  gamma.py 145-177: a page that came back is
\* consumed, and an exception (gamma.py 86, 96) ends the run; clob.py 100-106
\* and 151-180: a batch is over whatever came of it, and the worker is free
Return(t) ==
  /\ th[t].pc \in {"returned", "raised", "exhausted"}
  /\ th' = [th EXCEPT ![t] = IdleThread]
  /\ IF t # 0 THEN UNCHANGED <<pagesLeft, stage>>
     ELSE IF th[t].pc = "returned"
       THEN pagesLeft' = pagesLeft - 1 /\ UNCHANGED stage
       ELSE stage' = "aborted" /\ UNCHANGED pagesLeft
  /\ UNCHANGED <<lim, queue, hist, pvars, mvars, ovars>>

TakeAny == \E t \in DOMAIN th : TakeBatch(t)
WaitEnterAny == \E t \in DOMAIN th : WaitEnter(t)
WaitGrantAny == \E t \in DOMAIN th : WaitGrant(t)
PostAny == \E t \in DOMAIN th : \E r \in TimedResponses : Post(t, r)
SetWaitUntilAny == \E t \in DOMAIN th : SetWaitUntil(t)
BackoffWakeAny == \E t \in DOMAIN th : BackoffWake(t)
ReturnAny == \E t \in DOMAIN th : Return(t)

InitL == InitLimiter /\ PricesIdle /\ MidIdle /\ OtherIdle
NextLimiter ==
  \/ Tick \/ BeginPage \/ CatalogDone \/ TakeAny \/ PricesDone
  \/ WaitEnterAny \/ WaitGrantAny \/ PostAny \/ SetWaitUntilAny \/ BackoffWakeAny
  \/ ReturnAny

SpecLimiter == InitL /\ [][NextLimiter]_vars

\* The scheduling the code relies on.  Time passes; the pool hands a queued
\* batch to an idle worker and is joined when all are done; a thread that can
\* take a step of its own takes it: a sleep ends (time.sleep), a request
\* comes back with a response or with a transport error (the timeouts of the
\* httpx client, clob.py 38-41), a result is handed over.  The mutex of a
\* limiter is granted fairly: a thread that finds it free again and again
\* gets it.
FairLimiter ==
  /\ WF_vars(Tick) /\ WF_vars(BeginPage) /\ WF_vars(CatalogDone)
  /\ WF_vars(TakeAny) /\ WF_vars(PricesDone)
  /\ \A t \in 0..MaxConc :
       /\ SF_vars(WaitEnter(t))
       /\ SF_vars(SetWaitUntil(t))
       /\ WF_vars(WaitGrant(t))
       /\ WF_vars(\E r \in TimedResponses : Post(t, r))
       /\ WF_vars(BackoffWake(t))
       /\ WF_vars(Return(t))

SpecLimiterFair == InitL /\ [][NextLimiter]_vars /\ FairLimiter

----------------------------------------------------------------------------
(* The catalog's events and the extraction loop of run_fetch               *)
(* (runner.py 205-274, with gamma.py 151-158 and utils.py 49-68).           *)

\* a JSON field of a market as the catalog delivers it: null or absent, a
\* list, a string that holds a JSON list, or any other string
NoneField == [kind |-> "none", items |-> <<>>]
ListField(xs) == [kind |-> "list", items |-> xs]
JsonField(xs) == [kind |-> "json", items |-> xs]
TextField == [kind |-> "text", items |-> <<>>]

\* utils.py 49-68: the list, or None
parse_json_string_field(value) ==
  IF value.kind \in {"list", "json"}
    THEN [isNone |-> FALSE, items |-> value.items]
    ELSE [isNone |-> TRUE, items |-> <<>>]

\* Python truth of a parsed field: None and the empty list are false
Falsy(parsed) == parsed.isNone \/ parsed.items = <<>>

\* the empty token id, which Python takes as false
NoToken == ""

\* the markets the catalog may hold: a priceable pair under each value of
\* the order-book flag (True, False, absent), a single token, lists of
\* different lengths, a missing list on either side, and token lists with
\* an empty id
Market(o, t, f) == [outcomes |-> o, clobTokenIds |-> t, enableOrderBook |-> f]
YesNo == JsonField(<<"Yes", "No">>)
MarketKinds ==
  {Market(YesNo, JsonField(<<"t1", "t2">>), f) : f \in {"True", "False", "None"}}
  \cup {Market(ListField(<<"Yes">>), ListField(<<"t1">>), "True"),
        Market(YesNo, ListField(<<"t1">>), "False"),
        Market(YesNo, TextField, "True"),
        Market(NoneField, ListField(<<"t1">>), "None"),
        Market(YesNo, ListField(<<"t1", NoToken>>), "True"),
        Market(ListField(<<"Yes">>), ListField(<<NoToken>>), "False")}
Categories == {"sports", "politics"}

\* gamma.py 151-158: the parsed lists are stored in the market
Preprocess(market) ==
  [outcomes |-> market.outcomes, clobTokenIds |-> market.clobTokenIds,
   enableOrderBook |-> market.enableOrderBook,
   outcomes_parsed |-> parse_json_string_field(market.outcomes),
   clobTokenIds_parsed |-> parse_json_string_field(market.clobTokenIds)]

PreprocessEvent(event) ==
  [category |-> event.category,
   markets |-> [k \in 1..Len(event.markets) |-> Preprocess(event.markets[k])]]

\* the events with k markets, k >= 1
EventsWith(k) ==
  {[category |-> c, markets |-> ms] : c \in Categories, ms \in [1..k -> MarketKinds]}

\* the event lists that hold at most n markets in all
RECURSIVE EventLists(_)
EventLists(n) ==
  {<<>>} \cup
  UNION {{<<e>> \o rest : e \in EventsWith(k), rest \in EventLists(n - k)} : k \in 1..n}

\* runner.py 84-98: one TokenOutcome per token id that is not empty; origin
\* names the catalog entry the market is
RECURSIVE TokenOutcomesFrom(_, _, _, _)
TokenOutcomesFrom(token_ids, outcomes, origin, i) ==
  IF i > Len(token_ids) THEN <<>>
  ELSE (IF token_ids[i] = NoToken THEN <<>>
        ELSE <<[token_id |-> token_ids[i],
                outcome |-> IF i <= Len(outcomes) THEN outcomes[i] ELSE "",
                origin |-> origin]>>)
       \o TokenOutcomesFrom(token_ids, outcomes, origin, i + 1)

\* runner.py 66-98: the list of TokenOutcome; the empty list stands for None
extract_token_outcomes(market, origin) ==
  LET outcomes == market.outcomes_parsed
      token_ids == market.clobTokenIds_parsed
  IN IF Falsy(outcomes) \/ Falsy(token_ids) THEN <<>>
     ELSE IF Len(outcomes.items) # Len(token_ids.items) THEN <<>>
     ELSE TokenOutcomesFrom(token_ids.items, outcomes.items, origin, 1)

\* a variant that counts every flag other than True
NotTradableUnlessTrue(market) == market.enableOrderBook # "True"

\* runner.py 255: market.get("enableOrderBook") is False
NotTradable(market) == market.enableOrderBook = "False"

\* a variant that books a length mismatch under no-tokens
CountMarketMismatchAsNoTokens(c, market) ==
  LET outcomes == market.outcomes_parsed
      token_ids == market.clobTokenIds_parsed
      c1 == [c EXCEPT !.total_markets_processed = @ + 1]
  IN IF Falsy(outcomes) \/ Falsy(token_ids)
          \/ Len(outcomes.items) # Len(token_ids.items)
       THEN [c1 EXCEPT !.markets_skipped_no_tokens = @ + 1]
     ELSE LET c2 == [c1 EXCEPT !.markets_not_clob_tradable =
                                  IF NotTradable(market) THEN @ + 1 ELSE @]
          IN IF extract_token_outcomes(market, <<0, 0>>) # <<>>
               THEN [c2 EXCEPT !.markets_with_tokens = @ + 1]
               ELSE [c2 EXCEPT !.markets_skipped_no_tokens = @ + 1]

\* a variant that leaves a market with a false order-book flag uncounted
CountMarketNotTradableOnly(c, market) ==
  LET outcomes == market.outcomes_parsed
      token_ids == market.clobTokenIds_parsed
      c1 == [c EXCEPT !.total_markets_processed = @ + 1]
  IN IF Falsy(outcomes) \/ Falsy(token_ids)
       THEN [c1 EXCEPT !.markets_skipped_no_tokens = @ + 1]
     ELSE IF Len(outcomes.items) # Len(token_ids.items)
       THEN [c1 EXCEPT !.markets_skipped_mismatched = @ + 1]
     ELSE IF NotTradable(market)
       THEN [c1 EXCEPT !.markets_not_clob_tradable = @ + 1]
     ELSE IF extract_token_outcomes(market, <<0, 0>>) # <<>>
       THEN [c1 EXCEPT !.markets_with_tokens = @ + 1]
       ELSE [c1 EXCEPT !.markets_skipped_no_tokens = @ + 1]

\* runner.py 235-264: the counters after one accepted market
CountMarket(c, market) ==
  LET outcomes == market.outcomes_parsed
      token_ids == market.clobTokenIds_parsed
      c1 == [c EXCEPT !.total_markets_processed = @ + 1]
  IN IF Falsy(outcomes) \/ Falsy(token_ids)
       THEN [c1 EXCEPT !.markets_skipped_no_tokens = @ + 1]
     ELSE IF Len(outcomes.items) # Len(token_ids.items)
       THEN [c1 EXCEPT !.markets_skipped_mismatched = @ + 1]
     ELSE LET c2 == [c1 EXCEPT !.markets_not_clob_tradable =
                                  IF NotTradable(market) THEN @ + 1 ELSE @]
          IN IF extract_token_outcomes(market, <<0, 0>>) # <<>>
               THEN [c2 EXCEPT !.markets_with_tokens = @ + 1]
               ELSE [c2 EXCEPT !.markets_skipped_no_tokens = @ + 1]

\* runner.py 238-264: the TokenOutcomes one accepted market adds
TokensOf(market, origin) == extract_token_outcomes(market, origin)

\* runner.py 230-233: category_filter.lower() in record.category.lower(), on
\* the categories of the model
Matches(filter, category) == filter = category

\* runner.py 223 and 266: max_markets and total_markets_processed >= max_markets
AtMax == max_markets # 0 /\ counts.total_markets_processed >= max_markets

\* runner.py 269-274
FilledManifest ==
  [manifest EXCEPT
     !.markets_total = counts.total_markets_processed,
     !.markets_with_tokens = counts.markets_with_tokens,
     !.markets_skipped_no_tokens = counts.markets_skipped_no_tokens,
     !.markets_skipped_mismatched_arrays = counts.markets_skipped_mismatched,
     !.markets_not_clob_tradable = counts.markets_not_clob_tradable,
     !.tokens_total = Len(all_token_outcomes)]

\* runner.py 205-215: the state the loop starts in
InitExtract ==
  /\ raw_events \in {[k \in 1..Len(es) |-> PreprocessEvent(es[k])] :
                       es \in EventLists(MaxMarkets)}
  /\ max_markets \in 0..MaxMarkets
  /\ category_filter \in {"", "sports"}
  /\ x_pc = "loop" /\ x_i = 1 /\ x_j = 1
  /\ market_records = <<>> /\ all_token_outcomes = <<>>
  /\ counts = NoCounts /\ manifest = NewManifest

\* runner.py 217: the events are used up; 269-274
FinishExtract ==
  /\ x_pc = "loop"
  /\ x_i > Len(raw_events)
  /\ x_pc' = "done"
  /\ manifest' = FilledManifest
  /\ UNCHANGED <<raw_events, max_markets, category_filter, x_i, x_j,
                 market_records, all_token_outcomes, counts, notx>>

\* runner.py 223-224 and 266-267: the limit is reached, both loops are left
StopAtMax ==
  /\ x_pc = "loop"
  /\ x_i <= Len(raw_events)
  /\ AtMax
  /\ x_pc' = "done"
  /\ manifest' = FilledManifest
  /\ UNCHANGED <<raw_events, max_markets, category_filter, x_i, x_j,
                 market_records, all_token_outcomes, counts, notx>>

\* runner.py 217, 222: the markets of the event are used up
NextEvent ==
  /\ x_pc = "loop"
  /\ x_i <= Len(raw_events)
  /\ ~AtMax
  /\ x_j > Len(raw_events[x_i].markets)
  /\ x_i' = x_i + 1 /\ x_j' = 1
  /\ UNCHANGED <<raw_events, max_markets, category_filter, x_pc,
                 market_records, all_token_outcomes, counts, manifest, notx>>

\* runner.py 230-233: the market does not pass the category filter
SkipFiltered ==
  /\ x_pc = "loop"
  /\ x_i <= Len(raw_events)
  /\ ~AtMax
  /\ x_j <= Len(raw_events[x_i].markets)
  /\ category_filter # "" /\ ~Matches(category_filter, raw_events[x_i].category)
  /\ x_j' = x_j + 1
  /\ UNCHANGED <<raw_events, max_markets, category_filter, x_pc, x_i,
                 market_records, all_token_outcomes, counts, manifest, notx>>

\* runner.py 227-264: the market is accepted
TakeMarket ==
  /\ x_pc = "loop"
  /\ x_i <= Len(raw_events)
  /\ ~AtMax
  /\ x_j <= Len(raw_events[x_i].markets)
  /\ category_filter = "" \/ Matches(category_filter, raw_events[x_i].category)
  /\ LET market == raw_events[x_i].markets[x_j]
     IN /\ market_records' = Append(market_records, [origin |-> <<x_i, x_j>>])
        /\ counts' = CountMarket(counts, market)
        /\ all_token_outcomes' = all_token_outcomes \o TokensOf(market, <<x_i, x_j>>)
  /\ x_j' = x_j + 1
  /\ UNCHANGED <<raw_events, max_markets, category_filter, x_pc, x_i, manifest, notx>>

InitX == InitExtract /\ PricesIdle /\ MidIdle /\ LimiterIdle /\ RunIdle /\ EventsIdle
NextExtract == FinishExtract \/ StopAtMax \/ NextEvent \/ SkipFiltered \/ TakeMarket
SpecExtract == InitX /\ [][NextExtract]_vars

----------------------------------------------------------------------------
(* run_fetch from start to return (runner.py 137-342), with                 *)
(* GammaClient.fetch_all_events (gamma.py 100-177) page by page.  A page    *)
(* request either comes back or ends in the exception of gamma.py 86 or 96; *)
(* fetch_all_prices is taken as one step that settles every batch.          *)

\* the events of the run model: a sports event with a priceable pair, a
\* sports event with one priceable token, a politics event whose market has
\* no token list
RunEvents ==
  {[category |-> "sports",
    markets |-> <<Market(YesNo, JsonField(<<"t1", "t2">>), "True")>>],
   [category |-> "sports",
    markets |-> <<Market(ListField(<<"Yes">>), ListField(<<"t1">>), "True")>>],
   [category |-> "politics",
    markets |-> <<Market(YesNo, TextField, "True")>>]}

EventSeqs(n) == UNION {[1..k -> RunEvents] : k \in 0..n}

\* what the service holds: one event list in normal mode, one per series in
\* sports mode (two series), MaxEvents events in all
Catalogs(is_sports) ==
  IF is_sports
    THEN {<<a, b>> : a \in EventSeqs(MaxEvents), b \in EventSeqs(MaxEvents)}
    ELSE {<<a>> : a \in EventSeqs(MaxEvents)}

RECURSIVE Concat(_)
Concat(lists) == IF lists = <<>> THEN <<>> ELSE Head(lists) \o Concat(Tail(lists))

Min(a, b) == IF a < b THEN a ELSE b

\* the page the service returns for offset and limit
Slice(events, offset, limit) ==
  SubSeq(events, offset + 1, Min(offset + limit, Len(events)))

TruncateNever(events, max_events) == events

\* gamma.py 171-172: all_events[:max_events] when max_events is set
Truncate(events, max_events) ==
  IF max_events # 0 THEN SubSeq(events, 1, Min(max_events, Len(events))) ELSE events

\* an upper bound of the tokens a list of events can yield
RECURSIVE TokensOfMarkets(_, _)
TokensOfMarkets(ms, k) ==
  IF k > Len(ms) THEN <<>>
  ELSE extract_token_outcomes(Preprocess(ms[k]), <<0, k>>) \o TokensOfMarkets(ms, k + 1)
RECURSIVE TokensOfEvents(_)
TokensOfEvents(events) ==
  IF events = <<>> THEN <<>>
  ELSE TokensOfMarkets(Head(events).markets, 1) \o TokensOfEvents(Tail(events))

\* io_store.py 46-49: the manifest file holds the manifest as it is when written
NoManifest == [state |-> "absent", files |-> {}]
Saved(m) == [state |-> "run", files |-> m.files]
File(state, rows) == [state |-> state, rows |-> rows]
Absent == File("absent", <<>>)
\* the latest copy an earlier run left behind
EarlierRun == File("earlier", <<>>)

\* runner.py 137-167: the parameters, the directories, the fresh manifest
InitRun ==
  /\ dry_run \in BOOLEAN
  /\ sports \in BOOLEAN
  /\ catalog \in Catalogs(sports)
  /\ Len(Concat(catalog)) <= MaxEvents
  /\ gamma_page_size \in 1..MaxPageSize
  /\ max_markets \in 0..1
  /\ category_filter \in {"", "sports"}
  /\ batch_size \in 1..MaxBatch
  /\ 2 * Len(TokensOfEvents(Concat(catalog))) <= batch_size * MaxBatches
  /\ r_pc = "init" /\ f_series = 1 /\ f_offset = 0 /\ f_page = 0
  /\ f_all_events = <<>> /\ written = <<>>
  /\ disk = [prices_csv |-> Absent, latest_csv |-> EarlierRun]
  /\ manifest_json = NoManifest
  /\ price_requests = 0
  /\ raw_events = <<>> /\ x_pc = "idle" /\ x_i = 1 /\ x_j = 1
  /\ market_records = <<>> /\ all_token_outcomes = <<>>
  /\ counts = NoCounts /\ manifest = NewManifest
  /\ token_outcomes = <<>> /\ concurrency = 1
  /\ book = CHOOSE bk \in Books : TRUE
  /\ ppc = "idle" /\ batches = <<>> /\ fut = EmptyDict /\ all_raw_responses = <<>>
  /\ prices_by_token = EmptyDict /\ api_error_tokens = {} /\ results = <<>>
  /\ stats = [tokens_priced_ok |-> 0, tokens_missing_price |-> 0, api_errors |-> 0]

runfix == <<dry_run, sports, catalog, gamma_page_size, max_markets, category_filter>>
xloop == <<x_pc, x_i, x_j, market_records, all_token_outcomes, counts>>

\* runner.py 173-196: the catalog client is entered
StartRun ==
  /\ r_pc = "init"
  /\ r_pc' = "fetch"
  /\ UNCHANGED <<runfix, xloop, raw_events, manifest, f_series, f_offset, f_page,
                 f_all_events, written, disk, manifest_json, price_requests, pvars, mvars, lvars, gvars>>

\* gamma.py 126-129: the loop of fetch_all_events goes on
LoopOpen ==
  /\ f_page < DEFAULT_MAX_PAGES
  /\ ~(max_markets # 0 /\ Len(f_all_events) >= max_markets)

\* gamma.py 171-177 with runner.py 177-196: fetch_all_events returns; the
\* events are appended (sports mode) or taken (normal mode), and the next
\* series, if any, is begun
EndSeriesWritingEach(events) ==
  /\ raw_events' = IF sports THEN raw_events \o Truncate(events, max_markets)
                   ELSE Truncate(events, max_markets)
  /\ f_offset' = 0 /\ f_page' = 0 /\ f_all_events' = <<>>
  /\ written' = Append(written, "raw_gamma")
  /\ IF sports /\ f_series < Len(catalog)
       THEN f_series' = f_series + 1 /\ UNCHANGED r_pc
       ELSE r_pc' = "write_raw" /\ UNCHANGED f_series

EndSeries(events) ==
  /\ raw_events' = IF sports THEN raw_events \o Truncate(events, max_markets)
                   ELSE Truncate(events, max_markets)
  /\ f_offset' = 0 /\ f_page' = 0 /\ f_all_events' = <<>>
  /\ UNCHANGED written
  /\ IF sports /\ f_series < Len(catalog)
       THEN f_series' = f_series + 1 /\ UNCHANGED r_pc
       ELSE r_pc' = "write_raw" /\ UNCHANGED f_series

\* gamma.py 131-169: one page is requested and comes back
FetchPage ==
  /\ r_pc = "fetch"
  /\ LoopOpen
  /\ LET events == Slice(catalog[f_series], f_offset, gamma_page_size)
         parsed == [k \in 1..Len(events) |-> PreprocessEvent(events[k])]
     IN IF events = <<>> THEN EndSeries(f_all_events)
        ELSE IF Len(events) < gamma_page_size THEN EndSeries(f_all_events \o parsed)
        ELSE /\ f_all_events' = f_all_events \o parsed
             /\ f_offset' = f_offset + Len(events)
             /\ f_page' = f_page + 1
             /\ UNCHANGED <<raw_events, f_series, r_pc, written>>
  /\ UNCHANGED <<runfix, xloop, manifest, disk, manifest_json, price_requests,
                 pvars, mvars, lvars, gvars>>

\* gamma.py 86, 96: the page request ends in an exception, which leaves
\* fetch_all_events and run_fetch
PageFails ==
  /\ r_pc = "fetch"
  /\ LoopOpen
  /\ r_pc' = "aborted"
  /\ UNCHANGED <<runfix, xloop, raw_events, manifest, f_series, f_offset, f_page,
                 f_all_events, written, disk, manifest_json, price_requests, pvars, mvars, lvars, gvars>>

\* gamma.py 126-129: the loop is left at its head
LeaveLoop ==
  /\ r_pc = "fetch"
  /\ ~LoopOpen
  /\ EndSeries(f_all_events)
  /\ UNCHANGED <<runfix, xloop, manifest, disk, manifest_json, price_requests,
                 pvars, mvars, lvars, gvars>>

\* runner.py 198-215: the raw catalog is written, the extraction begins
WriteRawGamma ==
  /\ r_pc = "write_raw"
  /\ written' = Append(written, "raw_gamma")
  /\ manifest' = [manifest EXCEPT !.files = @ \cup {"raw_gamma"}]
  /\ x_pc' = "loop"
  /\ r_pc' = "extract"
  /\ UNCHANGED <<runfix, raw_events, x_i, x_j, market_records, all_token_outcomes,
                 counts, f_series, f_offset, f_page, f_all_events, disk, manifest_json,
                 price_requests, pvars, mvars, lvars, gvars>>

WriteMarketsThenPrices ==
  /\ r_pc = "extract"
  /\ x_pc = "done"
  /\ written' = Append(written, "markets_csv")
  /\ manifest' = [manifest EXCEPT !.files = @ \cup {"markets_csv"}]
  /\ r_pc' = "prices"
  /\ UNCHANGED <<runfix, xloop, raw_events, f_series, f_offset, f_page,
                 f_all_events, disk, manifest_json, price_requests, pvars, mvars, lvars, gvars>>

\* runner.py 276-283: the markets table is written
WriteMarkets ==
  /\ r_pc = "extract"
  /\ x_pc = "done"
  /\ written' = Append(written, "markets_csv")
  /\ manifest' = [manifest EXCEPT !.files = @ \cup {"markets_csv"}]
  /\ r_pc' = IF dry_run THEN "dry_manifest" ELSE "prices"
  /\ UNCHANGED <<runfix, xloop, raw_events, f_series, f_offset, f_page,
                 f_all_events, disk, manifest_json, price_requests, pvars, mvars, lvars, gvars>>

DryManifestSkipped ==
  /\ r_pc = "dry_manifest"
  /\ r_pc' = "done"
  /\ UNCHANGED <<runfix, xloop, raw_events, manifest, f_series, f_offset, f_page,
                 f_all_events, written, disk, manifest_json, price_requests, pvars, mvars, lvars, gvars>>

\* runner.py 283-294: the dry run writes the manifest and returns
DryManifest ==
  /\ r_pc = "dry_manifest"
  /\ written' = Append(written, "manifest")
  /\ manifest_json' = Saved(manifest)
  /\ r_pc' = "done"
  /\ UNCHANGED <<runfix, xloop, raw_events, manifest, f_series, f_offset, f_page,
                 f_all_events, disk, price_requests, pvars, mvars, lvars, gvars>>

\* the token ids of the pricing input, in its order
TokenIdsOf(tos) == [k \in 1..Len(tos) |-> tos[k].token_id]
ItemTokensNone(batch) == {}
ItemTokens(batch) == {batch[k].token_id : k \in 1..Len(batch)}
ItemPairs(batch) == {<<batch[k].token_id, batch[k].side>> : k \in 1..Len(batch)}

\* clob.py 151-180 over the batches 1..k, those in failed having come back
\* without prices (clob.py 97-98: an empty body with status 0; or a 200 with
\* an empty object)
RECURSIVE MergeUpTo(_, _, _)
MergeUpTo(bs, failed, k) ==
  IF k = 0 THEN EmptyDict
  ELSE IF k \in failed THEN MergeUpTo(bs, failed, k - 1)
  ELSE MergeData(MergeUpTo(bs, failed, k - 1), DataFor(ItemPairs(bs[k])))

\* runner.py 297-319: fetch_all_prices is called and returns; every batch has
\* been posted, the batches of failed were given up after the last retry,
\* those of blank were answered 200 with an empty object, the others with a
\* price for every item
FetchPrices ==
  /\ r_pc = "prices"
  /\ all_token_outcomes # <<>>
  /\ LET toks == TokenIdsOf(all_token_outcomes)
         bs == chunk_list(request_items(toks), batch_size)
     IN \E failed \in SUBSET (1..Len(bs)) : \E blank \in SUBSET ((1..Len(bs)) \ failed) :
          LET errs == UNION {ItemTokens(bs[k]) : k \in failed}
              pbt == MergeUpTo(bs, failed \cup blank, Len(bs))
              res == BuildResults(toks, pbt, errs)
              st == [tokens_priced_ok |-> CountStatus(res, "ok"),
                     tokens_missing_price |-> CountStatus(res, "missing_price"),
                     api_errors |-> CountStatus(res, "api_error")]
          IN /\ token_outcomes' = toks
             /\ batches' = bs
             /\ api_error_tokens' = errs
             /\ prices_by_token' = pbt
             /\ all_raw_responses' =
                  [k \in 1..Len(bs) |->
                     [batch_num |-> k - 1,
                      status |-> IF k \in failed THEN 0 ELSE 200,
                      data |-> IF k \in failed \cup blank THEN EmptyDict
                               ELSE DataFor(ItemPairs(bs[k]))]]
             /\ results' = res
             /\ stats' = st
             /\ price_requests' = Len(bs)
             /\ written' = written \o [k \in 1..Len(bs) |-> "clob_batch"]
             /\ manifest' = [manifest EXCEPT
                  !.price_batches = Len(bs),
                  !.tokens_priced_ok = st.tokens_priced_ok,
                  !.tokens_missing_price = st.tokens_missing_price,
                  !.api_errors = st.api_errors]
  /\ ppc' = "done"
  /\ r_pc' = "write_prices"
  /\ UNCHANGED <<runfix, xloop, raw_events, f_series, f_offset, f_page,
                 f_all_events, disk, manifest_json, batch_size, concurrency, book, fut,
                 mvars, lvars, gvars>>

\* runner.py 297, 331-332: nothing to price
NoTokens ==
  /\ r_pc = "prices"
  /\ all_token_outcomes = <<>>
  /\ r_pc' = "manifest"
  /\ UNCHANGED <<runfix, xloop, raw_events, manifest, f_series, f_offset, f_page,
                 f_all_events, written, disk, manifest_json, price_requests, pvars, mvars, lvars, gvars>>

\* runner.py 321-325 with io_store.py 37-43: the dated prices table
WritePrices ==
  /\ r_pc = "write_prices"
  /\ disk' = [disk EXCEPT !.prices_csv = File("run", results)]
  /\ written' = Append(written, "prices_csv")
  /\ manifest' = [manifest EXCEPT !.files = @ \cup {"prices_csv"}]
  /\ r_pc' = "copy_latest"
  /\ UNCHANGED <<runfix, xloop, raw_events, f_series, f_offset, f_page,
                 f_all_events, price_requests, manifest_json, pvars, mvars, lvars, gvars>>

\* runner.py 327-330 with io_store.py 52-54: latest.csv becomes a copy
CopyLatest ==
  /\ r_pc = "copy_latest"
  /\ disk' = [disk EXCEPT !.latest_csv = disk.prices_csv]
  /\ written' = Append(written, "latest_csv")
  /\ manifest' = [manifest EXCEPT !.files = @ \cup {"latest_csv"}]
  /\ r_pc' = "manifest"
  /\ UNCHANGED <<runfix, xloop, raw_events, f_series, f_offset, f_page,
                 f_all_events, price_requests, manifest_json, pvars, mvars, lvars, gvars>>

\* runner.py 334-342: the manifest is written, run_fetch returns it
WriteManifest ==
  /\ r_pc = "manifest"
  /\ written' = Append(written, "manifest")
  /\ manifest_json' = Saved(manifest)
  /\ manifest' = [manifest EXCEPT !.files = @ \cup {"manifest"}]
  /\ r_pc' = "done"
  /\ UNCHANGED <<runfix, xloop, raw_events, f_series, f_offset, f_page,
                 f_all_events, disk, price_requests, pvars, mvars, lvars, gvars>>

InitR == InitRun /\ MidIdle /\ LimiterIdle /\ EventsIdle

NextRun ==
  \/ StartRun
  \/ FetchPage
  \/ PageFails
  \/ LeaveLoop
  \/ WriteRawGamma
  \/ FinishExtract
  \/ StopAtMax
  \/ NextEvent
  \/ SkipFiltered
  \/ TakeMarket
  \/ WriteMarkets
  \/ DryManifest
  \/ FetchPrices
  \/ NoTokens
  \/ WritePrices
  \/ CopyLatest
  \/ WriteManifest

SpecRun == InitR /\ [][NextRun]_vars

----------------------------------------------------------------------------
(* The collecting loop of fetch_all_prices on its own (clob.py 151-235):    *)
(* every batch has its final response before the loop starts, and the loop  *)
(* takes the futures in any order of completion.                            *)

\* the price texts a response may quote
Quotes == {<<"0", ".", "5">>, <<"0", ".", "5", "5">>}

\* the bodies of a 200 that answers every item of the batch
Answers(batch) ==
  LET pairs == ItemPairs(batch)
      toks == ItemTokens(batch)
  IN {[t \in toks |-> [s \in {p[2] : p \in {r \in pairs : r[1] = t}} |-> quote[<<t, s>>]]] :
        quote \in [pairs -> Quotes]}

\* the finished futures of a batch: given up after the last retry
\* (clob.py 97-98), or returned with a 200 and a body
Finished(batch) ==
  {[st |-> "done", attempt |-> 0, how |-> "exhausted", status |-> 0,
    isdict |-> TRUE, data |-> EmptyDict]}
  \cup {[st |-> "done", attempt |-> 0, how |-> "returned", status |-> 200,
         isdict |-> TRUE, data |-> d] : d \in Answers(batch)}

InitCollect ==
  /\ token_outcomes \in UNION {[1..n -> TokenIds] : n \in 1..MaxTokens}
  /\ batch_size \in 1..MaxBatch
  /\ concurrency \in 1..MaxConc
  /\ batches = chunk_list(request_items(token_outcomes), batch_size)
  /\ Len(batches) <= MaxBatches
  /\ fut \in {f \in [0..(Len(batches) - 1) -> UNION {Finished(batches[k]) : k \in 1..Len(batches)}] :
                \A b \in DOMAIN f : f[b] \in Finished(batches[b + 1])}
  /\ book = CHOOSE bk \in Books : TRUE
  /\ ppc = "collect"
  /\ all_raw_responses = <<>>
  /\ prices_by_token = EmptyDict
  /\ api_error_tokens = {}
  /\ results = <<>>
  /\ stats = [tokens_priced_ok |-> 0, tokens_missing_price |-> 0, api_errors |-> 0]

InitC == InitCollect /\ MidIdle /\ LimiterIdle /\ OtherIdle
NextCollect == MergeAny \/ Finalize
SpecCollect == InitC /\ [][NextCollect]_vars

\* clob.py 163-169 over the futures 0..k-1 in the order of submission
RECURSIVE MergeInOrder(_)
MergeInOrder(k) ==
  IF k = 0 THEN EmptyDict
  ELSE IF fut[k - 1].status = 200
         THEN MergeData(MergeInOrder(k - 1), fut[k - 1].data)
         ELSE MergeInOrder(k - 1)

----------------------------------------------------------------------------
(* The pricing stage of a run with an interrupt (runner.py 297-342,         *)
(* clob.py 145-180, cli.py 249-271): KeyboardInterrupt is raised in the     *)
(* calling thread; the workers of the pool are not touched by it.           *)

\* runner.py 205-281: the run has written the raw catalog and the markets
\* table and has tokens to price, no token id twice
InitAtPrices ==
  /\ InitPrices
  /\ token_outcomes # <<>>
  /\ \A i, j \in 1..Len(token_outcomes) : i # j => token_outcomes[i] # token_outcomes[j]
  /\ dry_run = FALSE /\ sports = FALSE /\ catalog = <<>> /\ gamma_page_size = 1
  /\ r_pc = "prices" /\ f_series = 1 /\ f_offset = 0 /\ f_page = 0
  /\ f_all_events = <<>> /\ written = <<"raw_gamma", "markets_csv">>
  /\ disk = [prices_csv |-> Absent, latest_csv |-> EarlierRun]
  /\ manifest_json = NoManifest
  /\ price_requests = 0
  /\ raw_events = <<>> /\ max_markets = 0 /\ category_filter = ""
  /\ x_pc = "done" /\ x_i = 1 /\ x_j = 1
  /\ market_records = <<>> /\ all_token_outcomes = <<>>
  /\ counts = NoCounts
  /\ manifest = [NewManifest EXCEPT !.files = {"raw_gamma", "markets_csv"},
                                    !.tokens_total = Len(token_outcomes)]

\* KeyboardInterrupt in the calling thread of fetch_all_prices: before the
\* pool exists it leaves the call at once; inside the with block (clob.py
\* 145-180; `except Exception` at 176 does not catch it) it first runs the
\* exit of the block
Interrupt ==
  /\ r_pc = "prices"
  /\ ppc \in {"start", "collect"}
  /\ ppc' = IF ppc = "start" THEN "interrupted" ELSE "unwinding"
  /\ r_pc' = IF ppc = "start" THEN "interrupted" ELSE r_pc
  /\ UNCHANGED <<token_outcomes, batch_size, concurrency, book, batches, fut,
                 all_raw_responses, prices_by_token, api_error_tokens, results, stats>>
  /\ UNCHANGED <<runfix, xloop, raw_events, manifest, f_series, f_offset, f_page,
                 f_all_events, written, disk, manifest_json, price_requests,
                 mvars, lvars, gvars>>

\* a variant in which the exit of the with block does not wait
UnwindAtOnce ==
  /\ ppc = "unwinding"
  /\ ppc' = "interrupted"
  /\ r_pc' = "interrupted"
  /\ UNCHANGED <<token_outcomes, batch_size, concurrency, book, batches, fut,
                 all_raw_responses, prices_by_token, api_error_tokens, results, stats>>
  /\ UNCHANGED <<runfix, xloop, raw_events, manifest, f_series, f_offset, f_page,
                 f_all_events, written, disk, manifest_json, price_requests,
                 mvars, lvars, gvars>>

\* clob.py 145: ThreadPoolExecutor.__exit__ is shutdown(wait=True), which
\* joins the workers; then the exception leaves fetch_all_prices and
\* run_fetch (no handler there) and is caught in cli.py 265-267
Unwind ==
  /\ ppc = "unwinding"
  /\ \A b \in DOMAIN fut : fut[b].st \in {"done", "merged"}
  /\ ppc' = "interrupted"
  /\ r_pc' = "interrupted"
  /\ UNCHANGED <<token_outcomes, batch_size, concurrency, book, batches, fut,
                 all_raw_responses, prices_by_token, api_error_tokens, results, stats>>
  /\ UNCHANGED <<runfix, xloop, raw_events, manifest, f_series, f_offset, f_page,
                 f_all_events, written, disk, manifest_json, price_requests,
                 mvars, lvars, gvars>>

\* runner.py 300-319: fetch_all_prices has returned; the raw responses are
\* written, the counters go to the manifest
PricesReturn ==
  /\ r_pc = "prices"
  /\ ppc = "done"
  /\ written' = written \o [k \in 1..Len(all_raw_responses) |-> "clob_batch"]
  /\ manifest' = [manifest EXCEPT
       !.price_batches = Len(all_raw_responses),
       !.tokens_priced_ok = stats.tokens_priced_ok,
       !.tokens_missing_price = stats.tokens_missing_price,
       !.api_errors = stats.api_errors]
  /\ price_requests' = Len(batches)
  /\ r_pc' = "write_prices"
  /\ UNCHANGED <<runfix, xloop, raw_events, f_series, f_offset, f_page,
                 f_all_events, disk, manifest_json, pvars, mvars, lvars, gvars>>

InitI == InitAtPrices /\ MidIdle /\ LimiterIdle /\ EventsIdle
NextInterrupt ==
  \/ Submit \/ StartAny \/ AttemptAny \/ MergeAny \/ Finalize
  \/ Interrupt \/ Unwind
  \/ PricesReturn \/ WritePrices \/ CopyLatest \/ WriteManifest
SpecInterrupt == InitI /\ [][NextInterrupt]_vars

----------------------------------------------------------------------------
(* One call of GammaClient.fetch_all_events with any arguments              *)
(* (gamma.py 100-177).  A page request is a call of _request_with_retry: it *)
(* is sent, and then answered by a JSON list, by another JSON value, or by  *)
(* the exception of gamma.py 86 or 96.  The service may return any number   *)
(* of items, more than the limit included; the items are told apart by the  *)
(* request and the place they came in.                                      *)

Selectors == {"", "21"}

\* gamma.py 132-139: limit and offset always, a selector when it is truthy
Params(limit, offset, tag_id, series_id) ==
  [limit |-> limit, offset |-> offset, tag_id |-> tag_id, series_id |-> series_id]

PageLoopOpenNoCap == ~(g_max_events # 0 /\ Len(g_all_events) >= g_max_events)

\* gamma.py 126-129: the loop goes on
PageLoopOpen ==
  /\ g_page < g_max_pages
  /\ ~(g_max_events # 0 /\ Len(g_all_events) >= g_max_events)

InitEvents ==
  /\ g_tag_id \in Selectors /\ g_series_id \in Selectors
  /\ g_max_events \in 0..MaxEvents
  /\ g_page_size \in 1..MaxPageSize
  /\ g_max_pages \in 0..MaxPageCap
  /\ g_pc = "top"
  /\ g_offset = 0 /\ g_page = 0 /\ g_all_events = <<>>
  /\ g_params = NoRequest /\ g_sent = 0 /\ g_items = 0
  /\ g_short = FALSE /\ g_warned = FALSE /\ g_result = <<>>

gfix == <<kvars, cvars, g_tag_id, g_series_id, g_max_events, g_page_size, g_max_pages>>
notg == <<pvars, mvars, lvars, xvars, rvars>>

\* gamma.py 126-145: the loop is entered and the page is requested
SendPage ==
  /\ g_pc = "top"
  /\ PageLoopOpen
  /\ g_params' = Params(g_page_size, g_offset, g_tag_id, g_series_id)
  /\ g_sent' = g_sent + 1
  /\ g_pc' = "awaiting"
  /\ UNCHANGED <<gfix, g_offset, g_page, g_all_events, g_items, g_short,
                 g_warned, g_result, notg>>

\* the offset the loop takes after a full page
NextOffsetByPageSize(n) == g_offset + g_page_size
\* gamma.py 168
NextOffset(n) == g_offset + n

\* gamma.py 146-169: the page comes back as a list of n items
ReceivePage(n) ==
  /\ g_pc = "awaiting"
  /\ g_items' = g_items + n
  /\ IF n = 0
       THEN /\ g_pc' = "after" /\ g_short' = TRUE
            /\ UNCHANGED <<g_offset, g_page, g_all_events>>
       ELSE /\ g_all_events' = g_all_events \o [k \in 1..n |-> <<g_sent, k>>]
            /\ IF n < g_page_size
                 THEN /\ g_pc' = "after" /\ g_short' = TRUE
                      /\ UNCHANGED <<g_offset, g_page>>
                 ELSE /\ g_offset' = NextOffset(n)
                      /\ g_page' = g_page + 1
                      /\ g_pc' = "top"
                      /\ UNCHANGED g_short
  /\ UNCHANGED <<gfix, g_params, g_sent, g_warned, g_result, notg>>

ReceiveList == \E n \in 0..(g_page_size + 1) : ReceivePage(n)

\* gamma.py 148-149: the body is a JSON value that is no list
ReceiveOther ==
  /\ g_pc = "awaiting"
  /\ g_pc' = "after" /\ g_short' = TRUE
  /\ UNCHANGED <<gfix, g_offset, g_page, g_all_events, g_params, g_sent, g_items,
                 g_warned, g_result, notg>>

\* gamma.py 86, 96: the request ends in an exception, which leaves the call
RequestRaises ==
  /\ g_pc = "awaiting"
  /\ g_pc' = "raised"
  /\ UNCHANGED <<gfix, g_offset, g_page, g_all_events, g_params, g_sent, g_items,
                 g_short, g_warned, g_result, notg>>

\* gamma.py 126-129: the loop is left at its head
LeaveAtTop ==
  /\ g_pc = "top"
  /\ ~PageLoopOpen
  /\ g_pc' = "after"
  /\ UNCHANGED <<gfix, g_offset, g_page, g_all_events, g_params, g_sent, g_items,
                 g_short, g_warned, g_result, notg>>

\* gamma.py 171-177: the list is cut to max_events, the warning is logged,
\* the list is returned
ReturnEvents ==
  /\ g_pc = "after"
  /\ g_result' = Truncate(g_all_events, g_max_events)
  /\ g_warned' = (g_page >= g_max_pages)
  /\ g_pc' = "returned"
  /\ UNCHANGED <<gfix, g_offset, g_page, g_all_events, g_params, g_sent, g_items,
                 g_short, notg>>

InitE ==
  InitEvents /\ CoerceIdle /\ KalshiIdle /\ PricesIdle /\ MidIdle /\ LimiterIdle /\ ExtractIdle /\ RunIdle
NextEvents ==
  \/ SendPage
  \/ ReceiveList
  \/ ReceiveOther
  \/ RequestRaises
  \/ LeaveAtTop
  \/ ReturnEvents
SpecEvents == InitE /\ [][NextEvents]_vars

----------------------------------------------------------------------------
(* The list fields of a market, as Python values with their text            *)
(* (utils.py 49-68, gamma.py 157-158, runner.py 66-98).  A text is a        *)
(* sequence of characters; "q" stands for the double quote.  A value is     *)
(* None, a list of values, a string, a number or a dict.                    *)

PyValue(kind, text, items) == [kind |-> kind, text |-> text, items |-> items]
PyNone == PyValue("none", <<>>, <<>>)
PyList(xs) == PyValue("list", <<>>, xs)
PyStr(t) == PyValue("str", t, <<>>)
PyNum(t) == PyValue("num", t, <<>>)
PyDict == PyValue("dict", <<>>, <<>>)

Chars == {"[", "]", ",", " ", "1", "q", "a"}

RECURSIVE SkipWs(_)
SkipWs(s) == IF s # <<>> /\ Head(s) = " " THEN SkipWs(Tail(s)) ELSE s

RECURSIVE DropWsEnd(_)
DropWsEnd(s) ==
  IF s # <<>> /\ s[Len(s)] = " " THEN DropWsEnd(SubSeq(s, 1, Len(s) - 1)) ELSE s

\* str.strip() for the one whitespace character of the model
Strip(s) == DropWsEnd(SkipWs(s))

\* the number of leading characters of s that are digits
RECURSIVE DigitRun(_)
DigitRun(s) == IF s # <<>> /\ Head(s) = "1" THEN 1 + DigitRun(Tail(s)) ELSE 0

\* the position of the first double quote of s, 0 when there is none
RECURSIVE QuotePos(_)
QuotePos(s) ==
  IF s = <<>> THEN 0
  ELSE IF Head(s) = "q" THEN 1
  ELSE IF QuotePos(Tail(s)) = 0 THEN 0 ELSE 1 + QuotePos(Tail(s))

Rest(s, n) == SubSeq(s, n + 1, Len(s))
NoParse == [ok |-> FALSE, val |-> PyNone, rest |-> <<>>]
Parsed(v, rest) == [ok |-> TRUE, val |-> v, rest |-> rest]

\* json.JSONDecoder on the characters of the model: a value at the head of
\* s is an array, a string literal or an integer; in an array the values are
\* separated by one comma, with whitespace allowed around values
RECURSIVE ParseValue(_), ParseItems(_, _)
ParseValue(s) ==
  IF s = <<>> THEN NoParse
  ELSE IF Head(s) = "[" THEN
    LET t == SkipWs(Tail(s))
    IN IF t # <<>> /\ Head(t) = "]" THEN Parsed(PyList(<<>>), Tail(t))
       ELSE ParseItems(t, <<>>)
  ELSE IF Head(s) = "q" THEN
    LET n == QuotePos(Tail(s))
    IN IF n = 0 THEN NoParse
       ELSE Parsed(PyStr(SubSeq(s, 2, n)), Rest(s, n + 1))
  ELSE IF Head(s) = "1" THEN
    Parsed(PyNum(SubSeq(s, 1, DigitRun(s))), Rest(s, DigitRun(s)))
  ELSE NoParse
ParseItems(s, acc) ==
  LET v == ParseValue(s)
      t == SkipWs(v.rest)
  IN IF ~v.ok \/ t = <<>> THEN NoParse
     ELSE IF Head(t) = "]" THEN Parsed(PyList(Append(acc, v.val)), Tail(t))
     ELSE IF Head(t) = "," THEN ParseItems(SkipWs(Tail(t)), Append(acc, v.val))
     ELSE NoParse

\* json.loads: one value, whitespace around it, nothing after it;
\* JSONDecodeError otherwise
json_loads(s) ==
  LET v == ParseValue(SkipWs(s))
  IN IF v.ok /\ SkipWs(v.rest) = <<>> THEN v ELSE NoParse

\* a variant that does not strip the string
ParseJsonStringFieldNoStrip(value) ==
  IF value.kind = "none" THEN PyNone
  ELSE IF value.kind = "list" THEN value
  ELSE IF value.kind = "str" THEN
    LET t == value.text
    IN IF t # <<>> /\ Head(t) = "["
         THEN (IF json_loads(t).ok /\ json_loads(t).val.kind = "list"
                 THEN json_loads(t).val ELSE PyNone)
         ELSE PyNone
  ELSE PyNone

\* utils.py 49-68: parse_json_string_field on a Python value
ParseJsonStringField(value) ==
  IF value.kind = "none" THEN PyNone
  ELSE IF value.kind = "list" THEN value
  ELSE IF value.kind = "str" THEN
    LET t == Strip(value.text)
    IN IF t # <<>> /\ Head(t) = "["
         THEN (IF json_loads(t).ok /\ json_loads(t).val.kind = "list"
                 THEN json_loads(t).val ELSE PyNone)
         ELSE PyNone
  ELSE PyNone

\* Python truth of a value: None, the empty list, the empty string are false
Truthy(v) ==
  \/ v.kind = "list" /\ v.items # <<>>
  \/ v.kind = "str" /\ v.text # <<>>
  \/ v.kind = "num"

\* repr() of a value, and str(): a string is itself, anything else its repr
RECURSIVE Repr(_), ReprItems(_)
Repr(v) ==
  IF v.kind = "str" THEN <<"'">> \o v.text \o <<"'">>
  ELSE IF v.kind = "num" THEN v.text
  ELSE IF v.kind = "list" THEN <<"[">> \o ReprItems(v.items) \o <<"]">>
  ELSE <<"N", "o", "n", "e">>
ReprItems(xs) ==
  IF xs = <<>> THEN <<>>
  ELSE IF Len(xs) = 1 THEN Repr(xs[1])
  ELSE Repr(xs[1]) \o <<",", " ">> \o ReprItems(Tail(xs))
Str(v) == IF v.kind = "str" THEN v.text ELSE Repr(v)

\* gamma.py 157-158: the two parsed lists are stored in the market
Ingested(outcomes, clobTokenIds) ==
  [outcomes |-> outcomes, clobTokenIds |-> clobTokenIds,
   outcomes_parsed |-> ParseJsonStringField(outcomes),
   clobTokenIds_parsed |-> ParseJsonStringField(clobTokenIds)]

\* runner.py 84-98: token id and outcome as text, for the ids that are true
RECURSIVE TokenTexts(_, _, _)
TokenTexts(token_ids, outcomes, i) ==
  IF i > Len(token_ids) THEN <<>>
  ELSE (IF ~Truthy(token_ids[i]) THEN <<>>
        ELSE <<[token_id |-> Str(token_ids[i]), outcome |-> Str(outcomes[i])]>>)
       \o TokenTexts(token_ids, outcomes, i + 1)

\* a variant that reads the fields as the service sent them
ExtractTokenOutcomesFromRaw(market) ==
  LET outcomes == market.outcomes
      token_ids == market.clobTokenIds
  IN IF ~Truthy(outcomes) \/ ~Truthy(token_ids) THEN <<>>
     ELSE IF outcomes.kind # "list" \/ token_ids.kind # "list" THEN <<>>
     ELSE IF Len(outcomes.items) # Len(token_ids.items) THEN <<>>
     ELSE TokenTexts(token_ids.items, outcomes.items, 1)

\* runner.py 66-98: extract_token_outcomes on the ingested market; the empty
\* list stands for None
ExtractTokenOutcomes(market) ==
  LET outcomes == market.outcomes_parsed
      token_ids == market.clobTokenIds_parsed
  IN IF ~Truthy(outcomes) \/ ~Truthy(token_ids) THEN <<>>
     ELSE IF Len(outcomes.items) # Len(token_ids.items) THEN <<>>
     ELSE TokenTexts(token_ids.items, outcomes.items, 1)

\* The fields the service may send.  Every text up to MaxChars characters;
\* and the lists of up to MaxItems items, native or encoded as text in one
\* of three layouts, with or without a blank on either end.
TextsUpTo(n) == UNION {[1..k -> Chars] : k \in 0..n}
ItemValues ==
  {PyNum(<<"1">>), PyStr(<<>>), PyStr(<<"a">>), PyStr(<<"[", " ">>),
   PyList(<<>>), PyList(<<PyNum(<<"1", "1">>)>>)}
Lists == {PyList(xs) : xs \in UNION {[1..k -> ItemValues] : k \in 0..MaxItems}}
Layouts ==
  {[comma |-> <<",">>, inside |-> <<>>],
   [comma |-> <<",", " ">>, inside |-> <<>>],
   [comma |-> <<" ", ",", " ">>, inside |-> <<" ">>]}

\* the JSON text of a value in a layout
RECURSIVE Encode(_, _), EncodeItems(_, _)
Encode(v, lay) ==
  IF v.kind = "str" THEN <<"q">> \o v.text \o <<"q">>
  ELSE IF v.kind = "num" THEN v.text
  ELSE <<"[">> \o lay.inside \o EncodeItems(v.items, lay) \o lay.inside \o <<"]">>
EncodeItems(xs, lay) ==
  IF xs = <<>> THEN <<>>
  ELSE IF Len(xs) = 1 THEN Encode(xs[1], lay)
  ELSE Encode(xs[1], lay) \o lay.comma \o EncodeItems(Tail(xs), lay)

Field(value, source) == [value |-> value, source |-> source]
RawFields ==
  {Field(v, PyNone) : v \in {PyNone, PyDict, PyNum(<<"1">>)}}
  \cup {Field(L, L) : L \in Lists}
  \cup {Field(PyStr(t), PyNone) : t \in TextsUpTo(MaxChars)}
  \cup {Field(PyStr(b \o Encode(L, lay) \o b), L) :
          L \in Lists, lay \in Layouts, b \in {<<>>, <<" ">>}}

\* the field beside the one under study
Companions ==
  {PyNone, PyList(<<PyStr(<<"a">>)>>),
   PyStr(<<"[", "q", "a", "q", ",", " ", "q", "q", "]">>)}

InitCoerce ==
  /\ \E f \in RawFields : \E other \in Companions :
       /\ c_source = f.source
       /\ \/ c_outcomes = f.value /\ c_clobTokenIds = other
          \/ c_outcomes = other /\ c_clobTokenIds = f.value
  /\ c_pc = "raw"
  /\ c_market = "" /\ c_tokens = ""

cidle == <<kvars, pvars, mvars, lvars, xvars, rvars, g_tag_id, g_series_id, g_max_events,
           g_page_size, g_max_pages, g_pc, g_offset, g_page, g_all_events, g_params,
           g_sent, g_items, g_short, g_warned, g_result>>

\* gamma.py 151-158: the market is preprocessed when its page arrives
Ingest ==
  /\ c_pc = "raw"
  /\ c_market' = Ingested(c_outcomes, c_clobTokenIds)
  /\ c_pc' = "parsed"
  /\ UNCHANGED <<c_outcomes, c_clobTokenIds, c_source, c_tokens, cidle>>

\* runner.py 259: extract_token_outcomes(market)
Extract ==
  /\ c_pc = "parsed"
  /\ c_tokens' = ExtractTokenOutcomes(c_market)
  /\ c_pc' = "extracted"
  /\ UNCHANGED <<c_outcomes, c_clobTokenIds, c_source, c_market, cidle>>

InitCo ==
  InitCoerce /\ CallIdle /\ KalshiIdle /\ PricesIdle /\ MidIdle /\ LimiterIdle /\ ExtractIdle /\ RunIdle
NextCoerce == Ingest \/ Extract
SpecCoerce == InitCo /\ [][NextCoerce]_vars

----------------------------------------------------------------------------
(* KalshiClient.get_sports_markets (kalshi.py 109-151) over                 *)
(* _request_with_retry (kalshi.py 60-91).  The client is used without       *)
(* credentials, so that login() is not called; the waits of the limiter     *)
(* and the sleeps between attempts take time and change nothing else.       *)

LowerCase == <<"a", "b", "c", "d", "e", "f", "g", "h", "i", "j", "k", "l", "m",
               "n", "o", "p", "q", "r", "s", "t", "u", "v", "w", "x", "y", "z">>
UpperCase == <<"A", "B", "C", "D", "E", "F", "G", "H", "I", "J", "K", "L", "M",
               "N", "O", "P", "Q", "R", "S", "T", "U", "V", "W", "X", "Y", "Z">>

\* str.lower() and str.upper()
LowerChar(c) ==
  IF \E i \in 1..26 : UpperCase[i] = c
    THEN LowerCase[CHOOSE i \in 1..26 : UpperCase[i] = c] ELSE c
UpperChar(c) ==
  IF \E i \in 1..26 : LowerCase[i] = c
    THEN UpperCase[CHOOSE i \in 1..26 : LowerCase[i] = c] ELSE c
Lower(s) == [i \in 1..Len(s) |-> LowerChar(s[i])]
Upper(s) == [i \in 1..Len(s) |-> UpperChar(s[i])]

\* k in s, for texts
Contains(k, s) ==
  \E i \in 1..(Len(s) - Len(k) + 1) : SubSeq(s, i, i + Len(k) - 1) = k

\* kalshi.py 167-170
sports_keywords ==
  {<<"n", "f", "l">>, <<"n", "b", "a">>, <<"m", "l", "b">>,
   <<"n", "h", "l">>, <<"s", "o", "c", "c", "e", "r">>,
   <<"t", "e", "n", "n", "i", "s">>, <<"g", "o", "l", "f">>,
   <<"u", "f", "c">>, <<"m", "m", "a">>, <<"s", "p", "o", "r", "t">>,
   <<"f", "1">>, <<"n", "a", "s", "c", "a", "r">>,
   <<"b", "o", "x", "i", "n", "g">>,
   <<"c", "o", "l", "l", "e", "g", "e", " ", "f", "o", "o", "t", "b", "a", "l", "l">>,
   <<"n", "c", "a", "a">>}

\* kalshi.py 189
strong_sports_terms ==
  {<<"w", "i", "n", "s", " ", "b", "y">>,
   <<"p", "o", "i", "n", "t", "s", " ", "s", "c", "o", "r", "e", "d">>,
   <<"g", "o", "a", "l", "s", " ", "s", "c", "o", "r", "e", "d">>,
   <<"p", "a", "s", "s", "i", "n", "g", " ", "y", "a", "r", "d", "s">>,
   <<"r", "u", "s", "h", "i", "n", "g", " ", "y", "a", "r", "d", "s">>,
   <<"t", "o", "u", "c", "h", "d", "o", "w", "n">>}

SportsText == <<"s", "p", "o", "r", "t", "s">>
SportUpper == <<"S", "P", "O", "R", "T">>

\* kalshi.py 153-193; a field that is absent or null reads as the empty text
\* (tags as no tags)
is_sport_market(market) ==
  LET category == Lower(market.category)
      series == Lower(market.series_ticker)
      ticker == Upper(market.ticker)
      title == Lower(market.title)
      tags == {Lower(market.tags[i]) : i \in 1..Len(market.tags)}
  IN \/ category = SportsText
     \/ Contains(SportUpper, ticker)
     \/ \E k \in sports_keywords : Contains(Upper(k), ticker)
     \/ \E k \in sports_keywords :
          \/ Contains(k, series) \/ Contains(k, category)
          \/ \E tag \in tags : Contains(k, tag)
     \/ \E term \in strong_sports_terms : Contains(term, title)

KMarket(category, series_ticker, ticker, title, tags) ==
  [category |-> category, series_ticker |-> series_ticker, ticker |-> ticker,
   title |-> title, tags |-> tags]

\* the markets the exchange may list: sports by its category, sports by a
\* keyword in its ticker, and one that is no sports market
FeedMarkets ==
  {KMarket(<<"S", "p", "o", "r", "t", "s">>, <<>>, <<"K", "X", "A">>, <<>>,
           <<>>),
   KMarket(<<>>, <<>>, <<"k", "x", "n", "b", "a">>, <<>>, <<>>),
   KMarket(<<"P", "o", "l", "i", "t", "i", "c", "s">>, <<"K", "X", "C">>, <<"K", "X", "B">>, <<"w", "h", "o", " ", "w", "i", "n", "s">>,
           <<<<"V", "o", "t", "e">>>>)}

\* the cursor of a response that carries none (Python's None)
NoCursor == "<None>"

\* Python's truth of a cursor: None and the empty text are false
HasCursor(cursor) == cursor # NoCursor /\ cursor # ""

\* the cursors the exchange hands out, one for each page
CursorOfPage == <<"c1", "c2", "c3", "c4">>

\* kalshi.py 126-132: the query of a page request; no cursor entry without
\* a cursor
KParams(cursor) ==
  [limit |-> 100, status |-> "open",
   cursor |-> IF HasCursor(cursor) THEN cursor ELSE NoCursor]
KNoParams == [limit |-> 0, status |-> "", cursor |-> NoCursor]

\* a page: the body of a 200 with its markets and its cursor
KPage(markets, cursor) == [markets |-> markets, cursor |-> cursor]

RECURSIVE FeedLists(_)
FeedLists(n) ==
  IF n = 0 THEN {<<>>}
  ELSE FeedLists(n - 1) \cup
       {Append(ms, m) : ms \in {x \in FeedLists(n - 1) : Len(x) = n - 1},
                        m \in FeedMarkets}

\* the markets the exchange sent so far, in the order received
RECURSIVE KReceived(_)
KReceived(pages) ==
  IF pages = <<>> THEN <<>>
  ELSE KReceived(SubSeq(pages, 1, Len(pages) - 1)) \o pages[Len(pages)].markets

\* kalshi.py 72-83, 85-88: one pass of the loop after the request came back
KalshiHandle(r, attempt) ==
  IF r.err THEN Step("backoff", 0, TRUE, EmptyDict, 1)
  ELSE IF r.status = 429 THEN
    (IF r.retry_after < 0 THEN Step("raise", 0, TRUE, EmptyDict, 0)
     ELSE Step("defer", 0, TRUE, EmptyDict, r.retry_after))
  ELSE IF r.status >= 500 THEN Step("backoff", 0, TRUE, EmptyDict, Pow2(attempt))
  ELSE IF r.status \in 200..299 THEN Step("return", r.status, TRUE, EmptyDict, 0)
  ELSE Step("raise", r.status, TRUE, EmptyDict, 0)

\* kalshi.py 64: for attempt in range(3)
KALSHI_ATTEMPTS == 3

\* kalshi.py 141-145: the sports markets of a page are appended in their order
RECURSIVE AcceptMarkets(_, _)
AcceptMarkets(all_markets, markets) ==
  IF markets = <<>> THEN all_markets
  ELSE AcceptMarkets(
         IF is_sport_market(Head(markets))
           THEN Append(all_markets, Head(markets)) ELSE all_markets,
         Tail(markets))

\* a variant that goes on while the exchange hands out cursors
LoopEndsWithoutCursor(cursor, limit, all_markets) == ~HasCursor(cursor)

\* kalshi.py 147-148: if not cursor or (limit and len(all_markets) >= limit)
LoopEnds(cursor, limit, all_markets) ==
  ~HasCursor(cursor) \/ (limit # 0 /\ Len(all_markets) >= limit)

\* kalshi.py 150: all_markets[:limit], for limit >= 0
TakeLimit(all_markets, limit) ==
  SubSeq(all_markets, 1, IF Len(all_markets) < limit THEN Len(all_markets) ELSE limit)

InitKalshi ==
  /\ k_limit \in 1..MaxLimit
  /\ k_pc = "called"
  /\ k_attempt = 0
  /\ k_cursor = NoCursor
  /\ k_params = KNoParams
  /\ k_all_markets = <<>>
  /\ k_pages = <<>>
  /\ k_result = <<>>

kidle == <<pvars, mvars, lvars, xvars, rvars, cvars, g_tag_id, g_series_id,
           g_max_events, g_page_size, g_max_pages, g_pc, g_offset, g_page,
           g_all_events, g_params, g_sent, g_items, g_short, g_warned, g_result>>

\* kalshi.py 126-138: the loop body is entered, the query is built and
\* _request_with_retry is called
KBeginPage ==
  /\ k_pc \in {"called", "top"}
  /\ k_params' = KParams(k_cursor)
  /\ k_attempt' = 0
  /\ k_pc' = "request"
  /\ UNCHANGED <<k_limit, k_cursor, k_all_markets, k_pages, k_result, kidle>>

\* the responses that bring no page: a transport error, a status that is
\* no success, and a 200 whose body is no JSON or no JSON object
KalshiFailures ==
  {x \in TimedResponses : x.err \/ x.status \notin 200..299}
  \cup {Response(FALSE, 200, j, EmptyDict, 0) : j \in {"list", "invalid"}}

\* kalshi.py 64-91, 138-142: the request is sent and comes back with no
\* page; the loop of _request_with_retry goes on to its next pass, raises at
\* once, or falls through after the last pass and raises ("exhausted"); a
\* 200 is returned, and get_sports_markets raises on its body.  k_attempt
\* counts the passes that ended in a retry
KFail(r) ==
  /\ k_pc = "request"
  /\ LET h == KalshiHandle(r, k_attempt)
         raises == h.act \in {"raise", "return"}
     IN /\ k_attempt' = IF raises THEN k_attempt ELSE k_attempt + 1
        /\ k_pc' = IF raises THEN "raised"
                   ELSE IF k_attempt + 1 >= KALSHI_ATTEMPTS THEN "exhausted"
                   ELSE "request"
  /\ UNCHANGED <<k_limit, k_cursor, k_params, k_all_markets, k_pages, k_result, kidle>>

\* kalshi.py 138-148: the request succeeds with a body that holds the
\* markets and the cursor of a page
KReceivePage(markets, cursor) ==
  /\ k_pc = "request"
  /\ k_pages' = Append(k_pages, KPage(markets, cursor))
  /\ k_cursor' = cursor
  /\ k_all_markets' = AcceptMarkets(k_all_markets, markets)
  /\ k_pc' = IF LoopEnds(cursor, k_limit, k_all_markets') THEN "leave" ELSE "top"
  /\ UNCHANGED <<k_limit, k_attempt, k_params, k_result, kidle>>

\* the pages the exchange may send next: it holds at most MaxFeed markets
\* and hands out at most MaxCursors cursors
KReceive ==
  \E markets \in FeedLists(MaxFeed - Len(KReceived(k_pages))) :
    \E cursor \in {NoCursor, ""} \cup
         (IF Len(k_pages) < MaxCursors THEN {CursorOfPage[Len(k_pages) + 1]} ELSE {}) :
      KReceivePage(markets, cursor)

\* kalshi.py 150
KReturn ==
  /\ k_pc = "leave"
  /\ k_result' = TakeLimit(k_all_markets, k_limit)
  /\ k_pc' = "returned"
  /\ UNCHANGED <<k_limit, k_attempt, k_cursor, k_params, k_all_markets, k_pages, kidle>>

KFailAny == \E r \in KalshiFailures : KFail(r)

InitK ==
  InitKalshi /\ CallIdle /\ CoerceIdle /\ PricesIdle /\ MidIdle /\ LimiterIdle
  /\ ExtractIdle /\ RunIdle
NextKalshi == KBeginPage \/ KFailAny \/ KReceive \/ KReturn
SpecKalshi == InitK /\ [][NextKalshi]_vars

----------------------------------------------------------------------------
(* Properties of fetch_all_prices *)

Statuses == {"ok", "missing_price", "api_error"}

\* the final outcome of batch b counts as a failure of the batch
Failed(b) ==
  \/ fut[b].how \in {"exhausted", "raised"}
  \/ fut[b].how = "returned" /\ fut[b].status # 200
  \/ fut[b].how = "returned" /\ fut[b].status = 200 /\ ~fut[b].isdict

\* the service delivered side s of token t in the final 200 response of a batch
Served(t, s) ==
  \E b \in DOMAIN fut :
    /\ fut[b].how = "returned" /\ fut[b].status = 200 /\ fut[b].isdict
    /\ t \in DOMAIN fut[b].data
    /\ s \in DOMAIN fut[b].data[t]

\* a non-empty price of token t was delivered for at least one side
HasPrice(t) == \E s \in Sides : Served(t, s) /\ book[t][s] # EmptyText

\* C1: when fetch_all_prices returns, the result list is as long as the input
\* list, its i-th element carries the i-th input token id, and every status is
\* ok, missing_price or api_error.
C1_OneResultPerToken ==
  ppc = "done" =>
    /\ Len(results) = Len(token_outcomes)
    /\ \A i \in 1..Len(token_outcomes) :
         /\ results[i].token_id = token_outcomes[i]
         /\ results[i].status \in Statuses

\* a returned run with a repeated token id, one batch that exhausted its
\* retries and one that succeeded
C1_Witness ==
  /\ ppc = "done"
  /\ Len(token_outcomes) = 2
  /\ token_outcomes[1] = token_outcomes[2]
  /\ \E b \in DOMAIN fut : fut[b].how = "exhausted"
  /\ \E b \in DOMAIN fut : fut[b].how = "returned" /\ fut[b].status = 200

\* C2: every token with an item in a batch that exhausted its retries ends
\* with status api_error and with empty bid, ask and mid.
C2_FailedBatchTokensEmpty ==
  ppc = "done" =>
    \A b \in DOMAIN fut : fut[b].how = "exhausted" =>
      \A i \in 1..Len(results) : results[i].token_id \in BatchTokens(b) =>
        /\ results[i].status = "api_error"
        /\ results[i].bid = EmptyText
        /\ results[i].ask = EmptyText
        /\ results[i].mid = EmptyText

\* C3: the status is api_error for a token of a failed batch, otherwise
\* missing_price when no price was delivered for either side, otherwise ok; missing_price
\* implies empty bid, ask and mid; ok implies a non-empty bid or ask.
C3_StatusPrecedence ==
  ppc = "done" =>
    \A i \in 1..Len(results) :
      LET r == results[i]
          flagged == \E b \in DOMAIN fut : Failed(b) /\ r.token_id \in BatchTokens(b)
      IN /\ r.status = (IF flagged THEN "api_error"
                        ELSE IF ~HasPrice(r.token_id) THEN "missing_price"
                        ELSE "ok")
         /\ (r.status = "missing_price" =>
               r.bid = EmptyText /\ r.ask = EmptyText /\ r.mid = EmptyText)
         /\ (r.status = "ok" => r.bid # EmptyText \/ r.ask # EmptyText)

\* a returned run with a token of each status, the api_error one with no price
C3_Witness ==
  /\ ppc = "done"
  /\ \E i \in 1..Len(results) : results[i].status = "ok"
  /\ \E i \in 1..Len(results) :
       results[i].status = "api_error" /\ results[i].bid = EmptyText
       /\ results[i].ask = EmptyText
  /\ api_error_tokens # {}

\* a returned run with a token that has no price and no failed batch
C3_WitnessMissing ==
  /\ ppc = "done"
  /\ \E i \in 1..Len(results) : results[i].status = "missing_price"

\* C5: the ask of a token is the price the service delivered under BUY and
\* its bid the price delivered under SELL; a side not delivered is empty.
C5_BuyIsAskSellIsBid ==
  ppc = "done" =>
    \A i \in 1..Len(results) :
      LET t == results[i].token_id
      IN /\ results[i].ask = (IF Served(t, "BUY") THEN book[t]["BUY"] ELSE EmptyText)
         /\ results[i].bid = (IF Served(t, "SELL") THEN book[t]["SELL"] ELSE EmptyText)

\* a returned run with a token that got two different prices and a token
\* that got one side only
C5_Witness ==
  /\ ppc = "done"
  /\ \E i \in 1..Len(results) :
       /\ results[i].ask # EmptyText /\ results[i].bid # EmptyText
       /\ results[i].ask # results[i].bid
  /\ \E i \in 1..Len(results) :
       /\ results[i].ask # EmptyText /\ results[i].bid = EmptyText
       /\ ~Served(results[i].token_id, "SELL")

----------------------------------------------------------------------------
(* Properties of the finalisation of one token *)

\* the decimal a text denotes, as an integer number of 10^(-S)
Scaled(text, S) ==
  LET d == parse_decimal(text) IN d.coef * Pow10(S - d.scale)

\* C4: mid is non-empty exactly when bid and ask are both non-empty decimals,
\* and then twice the decimal mid denotes is the sum of the decimals bid and
\* ask denote; otherwise mid is the empty text.
C4_MidExactAverage ==
  m_pc = "done" =>
    LET both == /\ m_res.bid # EmptyText /\ m_res.ask # EmptyText
                /\ DecimalSyntax(m_res.bid) /\ DecimalSyntax(m_res.ask)
        S == MaxLen + 1
    IN /\ m_res.bid = m_bid /\ m_res.ask = m_ask
       /\ (m_res.mid # EmptyText) <=> both
       /\ both =>
            /\ DecimalSyntax(m_res.mid)
            /\ 2 * Scaled(m_res.mid, S) = Scaled(m_res.bid, S) + Scaled(m_res.ask, S)

\* a finalised token whose exact mid needs one digit more than bid and ask
C4_Witness ==
  /\ m_pc = "done"
  /\ m_bid = <<"0", ".", "5">>
  /\ m_ask = <<"5">>
  /\ m_res.mid = <<"2", ".", "7", "5">>

----------------------------------------------------------------------------
(* Properties of the RateLimiter and the retry loops *)

Threads == DOMAIN th
Workers == DOMAIN th \ {0}

\* the step in which wait() returns to thread t: the slot is granted at the
\* clock reading of utils.py 119
Granted(t) == th[t].pc = "wait_sleep" /\ th'[t].pc = "post"

\* the step in which thread t runs set_wait_until
Deferred(t) == th[t].pc = "defer" /\ th'[t].pc # "defer"

\* C6: on one RateLimiter, whatever threads call wait() and in whatever
\* order, a slot is granted only when at least min_interval (1/R) seconds
\* have passed since the slot granted before it, so no two grants share a slot
C6_GrantsOneIntervalApart ==
  [][\A t \in Threads :
       Granted(t) =>
         LET l == LimOf(t)
         IN /\ hist[l].since_grant # None =>
                 hist[l].since_grant >= lim[l].min_interval
            /\ lim[l].lock = t]_vars

\* two workers hold a slot of the price limiter each, granted one after the
\* other
C6_Witness ==
  /\ 2 \in Workers
  /\ th[1].pc = "post" /\ th[2].pc = "post"
  /\ hist["clob"].since_grant # None
  /\ hist["clob"].since_grant < lim["clob"].min_interval

\* C7: once a rate-limit response with retry delay d is received, no thread
\* of that RateLimiter is granted a slot before d seconds have passed
C7_NoGrantWithinRetryDelay ==
  [][\A t \in Threads : Granted(t) => hist[LimOf(t)].defer_left = 0]_vars

\* C8: the next-allowed deadline never moves back: set_wait_until(s) sets it
\* to now + s only if that is later than the deadline and leaves it alone
\* otherwise, wait() moves it forward, and nothing else touches it
C8_DeadlineNeverDecreases ==
  [][\A l \in DOMAIN lim :
       LET old == lim[l].next_allowed
           new == lim'[l].next_allowed
       IN /\ new >= old
             \/ (new = Earlier(old) /\ \A t \in Threads : th'[t].pc = th[t].pc)
          /\ \A t \in Threads :
               Deferred(t) /\ LimOf(t) = l =>
                 new = (IF Now + th[t].wake > old THEN Now + th[t].wake ELSE old)
          /\ (new # old /\ new # Earlier(old)) =>
               \E t \in Threads : LimOf(t) = l /\ (Granted(t) \/ Deferred(t))]_vars

\* a worker is about to pass on a retry delay shorter than the deadline that
\* another set_wait_until has already raised past the interval
C8_Witness ==
  \E t \in Workers :
    /\ th[t].pc = "defer"
    /\ lim["clob"].next_allowed > lim["clob"].min_interval
    /\ th[t].wake < lim["clob"].next_allowed

\* C9: in the pricing stage a worker sends a POST, first attempt or retry,
\* only on a slot of the shared price limiter granted to that worker, so
\* the POSTs sent never exceed the slots granted
C9_PostOnlyOnOwnSlot ==
  \A t \in Workers :
    /\ th[t].slot >= 0
    /\ th[t].pc = "post" => th[t].slot = 1
    /\ th[t].pc # "post" => th[t].slot = 0
    /\ th[t].pc # "idle" => stage = "prices"

\* one worker has sent a retry and the other a request, each on its own slot
C9_Witness ==
  /\ 2 \in Workers
  /\ stage = "prices"
  /\ th[1].posts >= 2 /\ th[1].pc = "post"
  /\ th[2].posts >= 1

\* C10: a catalog page request and a price batch make at least 1 and at
\* most MAX_RETRIES (3) HTTP attempts; a rate-limit response, a 5xx response
\* and a transport error use up one attempt each, and after the third
\* failure nothing more is sent
C10_OneToThreeAttempts ==
  \A t \in Threads :
    /\ th[t].posts <= MAX_RETRIES
    /\ th[t].pc \in {"returned", "raised"} => th[t].posts >= 1
    /\ th[t].pc = "exhausted" => th[t].posts = MAX_RETRIES
    /\ th[t].pc \in {"wait_lock", "wait_sleep", "post", "exhausted"} =>
         th[t].posts = th[t].attempt
    /\ th[t].pc \in {"defer", "backoff", "returned", "raised"} =>
         th[t].posts = th[t].attempt + 1

\* after a catalog page came back, a price batch has used up its three
\* attempts
C10_Witness ==
  /\ hist["gamma"].since_grant # None
  /\ \E t \in Workers : th[t].pc = "exhausted" /\ th[t].posts = MAX_RETRIES

\* a catalog page request has used up its three attempts
C10_WitnessCatalog ==
  th[0].pc = "exhausted" /\ th[0].posts = MAX_RETRIES

----------------------------------------------------------------------------
(* Properties of run_fetch *)

\* C11: when a catalog page request ends in its exception, run_fetch is left
\* at once and for good: no market was extracted, no price request was or
\* will be sent, and no file of the run was written; the latest prices file
\* is the one an earlier run left.
C11_CatalogFailureAbortsBeforeExtraction ==
  r_pc = "aborted" =>
    /\ x_pc = "idle" /\ market_records = <<>> /\ all_token_outcomes = <<>>
    /\ price_requests = 0
    /\ written = <<>>
    /\ disk = [prices_csv |-> Absent, latest_csv |-> EarlierRun]
    /\ ~ENABLED NextRun

\* sports mode: the first series was fetched and had events, a page of the
\* second series failed
C11_Witness ==
  /\ r_pc = "aborted" /\ sports /\ f_series = 2 /\ raw_events # <<>>

\* the stages after the extraction of a run that prices
Pricing == {"write_prices", "copy_latest", "manifest"}

\* the token ids of the batches that were given up
GivenUp ==
  UNION {{batches[k][i].token_id : i \in 1..Len(batches[k])} :
           k \in {j \in 1..Len(batches) : all_raw_responses[j].status # 200}}

\* C12: once price requests were sent the run is never aborted and never
\* stuck, whichever batches were given up; and a run with tokens that is not
\* dry has, on return, written the prices table with one row per token of the
\* pricing input in its order, the latest copy of it and the manifest, the
\* rows of the given-up batches having status api_error and being the
\* manifest's api_errors.
C12_FailedBatchesDoNotAbort ==
  /\ price_requests > 0 => r_pc \in Pricing \cup {"done"}
  /\ r_pc \in Pricing => ENABLED NextRun
  /\ (r_pc = "done" /\ ~dry_run /\ all_token_outcomes # <<>>) =>
       LET rows == disk.prices_csv.rows
       IN /\ disk.prices_csv.state = "run"
          /\ Len(rows) = Len(all_token_outcomes)
          /\ \A k \in 1..Len(rows) :
               /\ rows[k].token_id = all_token_outcomes[k].token_id
               /\ rows[k].token_id \in GivenUp => rows[k].status = "api_error"
          /\ disk.latest_csv = disk.prices_csv
          /\ "manifest" \in {written[k] : k \in 1..Len(written)}
          /\ manifest.api_errors =
               Cardinality({k \in 1..Len(rows) : rows[k].token_id \in GivenUp})

\* a run returned after one of its two batches was given up
C12_Witness ==
  /\ r_pc = "done" /\ Len(batches) = 2
  /\ all_raw_responses[1].status = 0 /\ all_raw_responses[2].status = 200

\* a run returned after all its batches were given up
C12_WitnessAll ==
  /\ r_pc = "done" /\ Len(batches) = 2
  /\ all_raw_responses[1].status = 0 /\ all_raw_responses[2].status = 0

ManifestWrites == Cardinality({k \in 1..Len(written) : written[k] = "manifest"})

\* the stages between the fetch of the catalog and the pricing
Writing == {"write_raw", "extract", "dry_manifest"}

\* C13: the manifest is never written twice; a run whose catalog was fetched
\* is never aborted and always has a next step until it returns; and when
\* it has returned the manifest has been written exactly once, as the last
\* file, on every path: dry run, no market accepted, no token to price,
\* every batch given up.
C13_ManifestWrittenExactlyOnce ==
  /\ ManifestWrites <= 1
  /\ r_pc \in Writing \cup Pricing => ENABLED NextRun
  /\ (r_pc = "prices" /\ all_token_outcomes = <<>>) => ENABLED NoTokens
  /\ r_pc = "aborted" => written = <<>>
  /\ r_pc = "done" =>
       ManifestWrites = 1 /\ written[Len(written)] = "manifest"

\* a run that is not dry returned with events fetched and no market accepted
C13_Witness ==
  /\ r_pc = "done" /\ ~dry_run /\ raw_events # <<>> /\ market_records = <<>>
  /\ ManifestWrites = 1

\* a dry run returned
C13_WitnessDry == r_pc = "done" /\ dry_run /\ all_token_outcomes # <<>>

\* a run returned with markets accepted and no token to price
C13_WitnessNoTokens ==
  r_pc = "done" /\ ~dry_run /\ market_records # <<>> /\ all_token_outcomes = <<>>

\* the stage of the run a position of run_fetch belongs to
StageOf ==
  CASE r_pc \in {"fetch", "write_raw"} -> "FETCH_CATALOG"
    [] r_pc = "extract" -> "EXTRACT"
    [] r_pc = "dry_manifest" -> "WRITE_CATALOG_ARTIFACTS"
    [] r_pc = "prices" -> "FETCH_PRICES"
    [] r_pc \in Pricing -> "WRITE_ARTIFACTS"
    [] r_pc = "done" -> "DONE"
    [] r_pc = "aborted" -> "ABORTED"
    [] OTHER -> "INIT"

\* the changes of stage of a dry run and of a run that prices
StageSteps ==
  {<<"INIT", "FETCH_CATALOG">>, <<"FETCH_CATALOG", "EXTRACT">>,
   <<"FETCH_CATALOG", "ABORTED">>}
  \cup (IF dry_run
          THEN {<<"EXTRACT", "WRITE_CATALOG_ARTIFACTS">>,
                <<"WRITE_CATALOG_ARTIFACTS", "DONE">>}
          ELSE {<<"EXTRACT", "FETCH_PRICES">>, <<"FETCH_PRICES", "WRITE_ARTIFACTS">>,
                <<"WRITE_ARTIFACTS", "DONE">>})

\* C14: every step of a run stays in its stage or takes the next stage of its
\* path; price requests are sent only in the FETCH_PRICES stage of a run that
\* is not dry, after the last page of the last series was fetched and the
\* extraction loop was left; the prices table and the latest copy change
\* only in the WRITE_ARTIFACTS stage, and never in a dry run.
C14_StagesInOrder ==
  [][/\ StageOf' = StageOf \/ <<StageOf, StageOf'>> \in StageSteps
     /\ price_requests' # price_requests =>
          /\ StageOf = "FETCH_PRICES" /\ ~dry_run
          /\ x_pc = "done" /\ x_pc' = "done"
          /\ f_series = Len(catalog) /\ raw_events' = raw_events
          /\ market_records' = market_records
     /\ disk' # disk => StageOf = "WRITE_ARTIFACTS" /\ ~dry_run
     /\ dry_run => price_requests' = 0 /\ Len(batches') = 0]_vars

\* a run that priced has returned
C14_Witness ==
  r_pc = "done" /\ ~dry_run /\ price_requests = 2 /\ disk.latest_csv.state = "run"

\* a dry run with tokens has returned
C14_WitnessDry ==
  r_pc = "done" /\ dry_run /\ Len(all_token_outcomes) = 2 /\ price_requests = 0

\* C15: when a run that is not dry has returned, the dated prices table of
\* this run exists and the latest file is a copy of it, not the file an
\* earlier run left, whatever the number of tokens.
C15_LatestIsThisRunsTable ==
  (r_pc = "done" /\ ~dry_run) =>
    /\ disk.prices_csv.state = "run"
    /\ disk.latest_csv = disk.prices_csv

----------------------------------------------------------------------------
(* Properties of the extraction loop *)

\* the market the loop is at
Current == raw_events[x_i].markets[x_j]
\* a step of the loop that accepts the market it is at
Accepting == x_pc = "loop" /\ market_records' # market_records
Mismatched(market) ==
  /\ market.outcomes_parsed.items # <<>> /\ market.clobTokenIds_parsed.items # <<>>
  /\ Len(market.outcomes_parsed.items) # Len(market.clobTokenIds_parsed.items)
Origins(records) == {records[k].origin : k \in 1..Len(records)}

\* C16: accepting a market whose outcome list and token list are both
\* non-empty and of different lengths adds no token to the pricing input,
\* adds one to the mismatched counter (and to the total) and nothing to the
\* other counters, and adds the market once to the market records.
C16_MismatchedMarketSkippedAndCounted ==
  [][(Accepting /\ Mismatched(Current)) =>
       /\ all_token_outcomes' = all_token_outcomes
       /\ counts' = [counts EXCEPT !.markets_skipped_mismatched = @ + 1,
                                   !.total_markets_processed = @ + 1]
       /\ <<x_i, x_j>> \notin Origins(market_records)
       /\ market_records' = Append(market_records, [origin |-> <<x_i, x_j>>])]_vars

\* a mismatched market was accepted after a priceable one
C16_Witness ==
  /\ counts.markets_skipped_mismatched = 1 /\ counts.markets_with_tokens = 1
  /\ Len(market_records) = 2
  /\ Mismatched(raw_events[market_records[2].origin[1]].markets[market_records[2].origin[2]])

\* the TokenOutcomes a step adds to the pricing input
Added == Len(all_token_outcomes') - Len(all_token_outcomes)

\* C17: accepting a market either adds one TokenOutcome for each entry of its
\* token-id list and counts it as with-tokens, or adds none and counts it in
\* exactly one of the two skip counters.
C17_NoPartialExtraction ==
  [][Accepting =>
       \/ /\ Added = Len(Current.clobTokenIds_parsed.items)
          /\ counts'.markets_with_tokens = counts.markets_with_tokens + 1
          /\ counts'.markets_skipped_no_tokens = counts.markets_skipped_no_tokens
          /\ counts'.markets_skipped_mismatched = counts.markets_skipped_mismatched
       \/ /\ Added = 0
          /\ counts'.markets_with_tokens = counts.markets_with_tokens
          /\ counts'.markets_skipped_no_tokens + counts'.markets_skipped_mismatched
               = counts.markets_skipped_no_tokens + counts.markets_skipped_mismatched + 1]_vars

EqualLists(market) ==
  /\ market.outcomes_parsed.items # <<>>
  /\ Len(market.outcomes_parsed.items) = Len(market.clobTokenIds_parsed.items)
\* the same market with the order-book flag true
Tradable(market) == [market EXCEPT !.enableOrderBook = "True"]
NonEmptyIds(market) ==
  {k \in 1..Len(market.clobTokenIds_parsed.items) :
     market.clobTokenIds_parsed.items[k] # NoToken}

\* C18: accepting a market with equal non-empty lists whose order-book flag
\* is false adds one to the not-tradable counter and adds to the pricing
\* input what the same market with a true flag would add, one TokenOutcome
\* for each token id that is not empty; accepting a market whose flag is
\* absent or null leaves the not-tradable counter as it is.
C18_NotTradableStillPriced ==
  [][/\ (Accepting /\ EqualLists(Current) /\ Current.enableOrderBook = "False") =>
          /\ counts'.markets_not_clob_tradable = counts.markets_not_clob_tradable + 1
          /\ all_token_outcomes' =
               all_token_outcomes \o extract_token_outcomes(Tradable(Current), <<x_i, x_j>>)
          /\ Added = Cardinality(NonEmptyIds(Current))
          /\ counts'.markets_skipped_mismatched = counts.markets_skipped_mismatched
     /\ (Accepting /\ Current.enableOrderBook = "None") =>
          counts'.markets_not_clob_tradable = counts.markets_not_clob_tradable]_vars

\* a market with a false flag was accepted after one with no flag, and its
\* two tokens are in the pricing input
C18_Witness ==
  /\ Len(market_records) = 2
  /\ raw_events[1].markets[1].enableOrderBook = "None"
  /\ counts.markets_not_clob_tradable = 1
  /\ counts.markets_with_tokens = 2
  /\ Len(all_token_outcomes) = 4

----------------------------------------------------------------------------
(* Properties of the pricing input *)

\* C19: no token id is twice in the pricing input of a run, and none is
\* twice in the rows of its prices table.
C19_TokenIdsUnique ==
  /\ \A i, j \in 1..Len(all_token_outcomes) :
       i # j => all_token_outcomes[i].token_id # all_token_outcomes[j].token_id
  /\ \A i, j \in 1..Len(disk.prices_csv.rows) :
       i # j => disk.prices_csv.rows[i].token_id # disk.prices_csv.rows[j].token_id

\* C20: whatever the order in which the futures complete, and whatever the
\* pool size, the results of fetch_all_prices for given tokens, batch size
\* and final responses are those of the run in which the batches complete
\* in the order of their submission.
C20_ResultsIndependentOfCompletionOrder ==
  ppc = "done" =>
    results = BuildResults(token_outcomes, MergeInOrder(Len(batches)),
                           api_error_tokens)

----------------------------------------------------------------------------
(* Properties of the counters and of the manifest *)

\* how many of the three counters a step raises by one, none changing
\* otherwise
Raised(old, new) ==
  Cardinality({f \in {"markets_with_tokens", "markets_skipped_no_tokens",
                      "markets_skipped_mismatched"} : new[f] = old[f] + 1})
Kept(old, new) ==
  Cardinality({f \in {"markets_with_tokens", "markets_skipped_no_tokens",
                      "markets_skipped_mismatched"} : new[f] = old[f]})

\* C21: accepting a market raises exactly one of with-tokens, no-tokens and
\* mismatched by one and leaves the other two (no-tokens when the outcome
\* list or the token list is missing or empty); at every time the total is
\* the sum of the three and the number of market records, and when the loop
\* is left the manifest holds these counters.
C21_CountersPartitionMarkets ==
  [][/\ Accepting =>
          /\ Raised(counts, counts') = 1 /\ Kept(counts, counts') = 2
          /\ (Falsy(Current.outcomes_parsed) \/ Falsy(Current.clobTokenIds_parsed)) =>
               counts'.markets_skipped_no_tokens = counts.markets_skipped_no_tokens + 1
     /\ counts'.total_markets_processed =
          counts'.markets_with_tokens + counts'.markets_skipped_no_tokens
            + counts'.markets_skipped_mismatched
     /\ counts'.total_markets_processed = Len(market_records')
     /\ x_pc' = "done" =>
          /\ manifest'.markets_total = Len(market_records')
          /\ manifest'.markets_total =
               manifest'.markets_with_tokens + manifest'.markets_skipped_no_tokens
                 + manifest'.markets_skipped_mismatched_arrays
          /\ manifest'.markets_with_tokens = counts'.markets_with_tokens
          /\ manifest'.markets_skipped_no_tokens = counts'.markets_skipped_no_tokens]_vars

\* the loop was left after a priceable market with a false order-book flag
\* and a market without a token list
C21_Witness ==
  /\ x_pc = "done"
  /\ manifest.markets_total = 2 /\ manifest.markets_with_tokens = 1
  /\ manifest.markets_skipped_no_tokens = 1 /\ manifest.markets_not_clob_tradable = 1
  /\ manifest.tokens_total = 2

----------------------------------------------------------------------------
(* Properties of fetch_all_events *)

\* a step that sends a page request
Sending == g_sent' = g_sent + 1

C25_OffsetIsItemsReturned ==
  [][Sending =>
       /\ g_pc # "awaiting"
       /\ g_sent = 0 => g_params'.offset = 0
       /\ g_params'.offset = g_items
       /\ g_params'.limit = g_page_size]_vars

\* the second request of a call whose first page held more items than asked
C25_Witness ==
  /\ g_sent = 2 /\ g_pc = "awaiting"
  /\ g_params.offset = g_page_size + 1

\* the pages that came back with at least page_size items, once every
\* request is answered
FullPages == g_sent - (IF g_short THEN 1 ELSE 0)

\* C26: after a page that is short, empty or no list no page is requested;
\* a call sends at most max_pages page requests; and the call logs the
\* max_pages warning exactly when max_pages full pages came back.
C26_StopsOnLastPageAndCap ==
  [][/\ g_short => ~Sending
     /\ g_sent' <= g_max_pages
     /\ g_pc' = "returned" => (g_warned' <=> FullPages' = g_max_pages)]_vars

\* a call returned after max_pages full pages, with the warning
C26_Witness ==
  /\ g_pc = "returned" /\ g_warned /\ g_sent = 2 /\ g_max_pages = 2 /\ ~g_short

\* a call returned after a short page, without the warning
C26_WitnessShort ==
  /\ g_pc = "returned" /\ ~g_warned /\ g_sent = 2 /\ g_max_pages = 2 /\ g_short

\* C27: with max_events given, no page is requested once the service has
\* returned max_events items or more, and the list returned is the first
\* max_events items accumulated, or all of them if they are fewer.
C27_MaxEventsBoundsTheCall ==
  [][g_max_events # 0 =>
       /\ Sending => g_items < g_max_events
       /\ g_pc' = "returned" =>
            /\ Len(g_result') <= g_max_events
            /\ Len(g_result') = Min(g_max_events, g_items')
            /\ g_result' = SubSeq(g_all_events', 1, Len(g_result'))]_vars

\* a call returned max_events items of the larger number it had accumulated
C27_Witness ==
  /\ g_pc = "returned" /\ g_max_events = 1 /\ g_items = 2 /\ Len(g_result) = 1

----------------------------------------------------------------------------
(* Properties of the raw responses and of the worker pool *)

\* C23: when fetch_all_prices returns, the raw responses are as many as the
\* batches and their batch numbers are pairwise distinct.
C23_OneRawResponsePerBatch ==
  ppc = "done" =>
    /\ Len(all_raw_responses) = Len(batches)
    /\ \A i, j \in 1..Len(all_raw_responses) :
         i # j => all_raw_responses[i].batch_num # all_raw_responses[j].batch_num

\* C24: when the run has returned, the files index of the manifest file on
\* disk names every file the run wrote: raw catalog, markets table, raw
\* price batches, prices table, latest copy and the manifest itself.
C24_SavedIndexNamesEveryFile ==
  r_pc = "done" =>
    /\ manifest_json.state = "run"
    /\ \A k \in 1..Len(written) : written[k] \in manifest_json.files

----------------------------------------------------------------------------
(* Properties of the retry loops *)

\* the seconds of the backoff sleep after a failure on attempts 0, 1, 2
Doubling == <<1, 2, 4>>

C28_WitnessCatalog ==
  th[0].pc = "backoff" /\ th[0].attempt = 1 /\ th[0].wake = 2

----------------------------------------------------------------------------
(* Properties of the worker pool and of the collecting thread *)

\* the life of a future: queued, taken by a worker, finished, merged
Rank(st) == CASE st = "queued" -> 0 [] st = "running" -> 1
              [] st = "done" -> 2 [] st = "merged" -> 3

InWork(f) == {b \in DOMAIN f : f[b].st = "running"}

\* C29: at every time at most concurrency batches are in the hands of
\* workers, the others submitted being queued, finished or merged; once the
\* batches are submitted there is one future per batch; a future never goes
\* back (so a batch is taken by a worker once and finished once), and
\* fetch_all_prices returns only when every batch was taken and finished.
C29_PoolBoundedEachBatchOnce ==
  [][/\ Cardinality(InWork(fut')) <= concurrency
     /\ ppc' # "start" => DOMAIN fut' = {k - 1 : k \in 1..Len(batches')}
     /\ \A b \in DOMAIN fut :
          /\ b \in DOMAIN fut'
          /\ Rank(fut'[b].st) \in {Rank(fut[b].st), Rank(fut[b].st) + 1}
          /\ fut[b].st = "queued" => fut[b].attempt = 0
     /\ ppc' = "done" => \A b \in DOMAIN fut' : fut'[b].st = "merged"]_vars

\* a pool of one worker is at work on the first batch while the second is
\* queued
C29_Witness ==
  /\ concurrency = 1 /\ Len(batches) = 2
  /\ fut[0].st = "running" /\ fut[1].st = "queued"

\* two workers are at work on two batches
C29_WitnessBoth ==
  /\ concurrency = 2 /\ fut # EmptyDict /\ InWork(fut) = {0, 1}

\* a step of a worker: a future is taken from the queue or is worked on
WorkerStep ==
  \E b \in DOMAIN fut : fut[b].st \in {"queued", "running"} /\ fut'[b] # fut[b]

\* the steps in which the future b, and no other, goes from finished to merged
Merging(b) ==
  /\ fut[b].st = "done" /\ fut'[b].st = "merged"
  /\ \A x \in DOMAIN fut \ {b} : fut'[x] = fut[x]

\* C30: a step of a worker leaves the price map, the api_error set, the raw
\* responses and the results as they are; these change only in a step of the
\* collecting thread that merges one finished future, whole: the sides of
\* its body are all in the map after the step, or its tokens are all in the
\* api_error set; a future is merged once; and when fetch_all_prices returns
\* nothing merged is lost: every side of every body that came back with 200
\* is in the map, every token of every other batch is in the api_error set.
C30_OnlyCollectorWritesShared ==
  [][/\ WorkerStep =>
          UNCHANGED <<prices_by_token, api_error_tokens, all_raw_responses, results, stats>>
     /\ <<prices_by_token, api_error_tokens, all_raw_responses>>'
          # <<prices_by_token, api_error_tokens, all_raw_responses>> =>
          \E b \in DOMAIN fut :
            /\ Merging(b)
            /\ \/ /\ api_error_tokens' = api_error_tokens
                  /\ \A t \in DOMAIN fut[b].data : \A sd \in DOMAIN fut[b].data[t] :
                       /\ t \in DOMAIN prices_by_token'
                       /\ sd \in DOMAIN prices_by_token'[t]
                       /\ prices_by_token'[t][sd] = fut[b].data[t][sd]
                  /\ \A t \in DOMAIN prices_by_token : \A sd \in DOMAIN prices_by_token[t] :
                       /\ t \in DOMAIN prices_by_token'
                       /\ sd \in DOMAIN prices_by_token'[t]
               \/ /\ prices_by_token' = prices_by_token
                  /\ api_error_tokens' = api_error_tokens \cup BatchTokens(b)
     /\ \A b \in DOMAIN fut : fut[b].st = "merged" => fut'[b] = fut[b]
     /\ ppc' = "done" =>
          \A b \in DOMAIN fut' :
            IF fut'[b].how = "returned" /\ fut'[b].status = 200 /\ fut'[b].isdict
              THEN \A t \in DOMAIN fut'[b].data : \A sd \in DOMAIN fut'[b].data[t] :
                     t \in DOMAIN prices_by_token' /\ sd \in DOMAIN prices_by_token'[t]
              ELSE \A k \in 1..Len(batches'[b + 1]) :
                     batches'[b + 1][k].token_id \in api_error_tokens']_vars

\* fetch_all_prices returned after two workers brought one side each of the
\* same token
C30_Witness ==
  /\ ppc = "done" /\ batch_size = 1 /\ concurrency = 2 /\ token_outcomes = <<"t1">>
  /\ "t1" \in DOMAIN prices_by_token
  /\ DOMAIN prices_by_token["t1"] = {"BUY", "SELL"}

----------------------------------------------------------------------------
(* Properties of the request items and of the batches *)

----------------------------------------------------------------------------
(* Properties of the aggregation of the two sides of a token *)

\* batch b came back with 200 and a body that holds side s of token t
Delivered(b, t, s) ==
  /\ fut[b].how = "returned" /\ fut[b].status = 200 /\ fut[b].isdict
  /\ t \in DOMAIN fut[b].data
  /\ s \in DOMAIN fut[b].data[t]

\* the entry of token t in the price map, once merged
Entry(pbt, t) == Get(pbt, t, EmptyDict)

\* C32: merging a response never removes or changes a side that is already
\* in the entry of a token; so when fetch_all_prices returns, a token whose
\* BUY came back with one batch and whose SELL came back with another has
\* both in its result, ask from the one and bid from the other, whichever
\* was merged first; and a token for which a price came back for one side
\* only, no batch holding one of its items having failed, has status ok,
\* the other side empty and an empty mid.
C32_SidesFromTwoBatchesCombine ==
  /\ [][\A t \in DOMAIN prices_by_token : \A s \in DOMAIN prices_by_token[t] :
          /\ t \in DOMAIN prices_by_token'
          /\ s \in DOMAIN prices_by_token'[t]
          /\ prices_by_token'[t][s] = prices_by_token[t][s]]_vars
  /\ [](ppc = "done" =>
          \A i \in 1..Len(results) :
            LET r == results[i]
                t == r.token_id
            IN /\ (\E b1, b2 \in DOMAIN fut :
                     /\ b1 # b2
                     /\ Delivered(b1, t, "BUY") /\ ~Delivered(b1, t, "SELL")
                     /\ Delivered(b2, t, "SELL") /\ ~Delivered(b2, t, "BUY")) =>
                     /\ r.ask = book[t]["BUY"]
                     /\ r.bid = book[t]["SELL"]
                     /\ Entry(prices_by_token, t) = book[t]
               /\ \A s \in Sides :
                    (/\ \E b \in DOMAIN fut : Delivered(b, t, s)
                     /\ book[t][s] # EmptyText
                     /\ \A b \in DOMAIN fut : ~Delivered(b, t, CHOOSE o \in Sides : o # s)
                     /\ \A b \in DOMAIN fut : t \in BatchTokens(b) => ~Failed(b)) =>
                      /\ r.status = "ok"
                      /\ r.mid = EmptyText
                      /\ IF s = "BUY" THEN r.ask = book[t]["BUY"] /\ r.bid = EmptyText
                                      ELSE r.bid = book[t]["SELL"] /\ r.ask = EmptyText)

\* one token in batches of one item: the batch of the SELL item was merged
\* first, the batch of the BUY item after it, and the result has both
C32_Witness ==
  /\ ppc = "done" /\ token_outcomes = <<"t1">> /\ batch_size = 1
  /\ Len(all_raw_responses) = 2 /\ all_raw_responses[1].batch_num = 1
  /\ results[1].ask # EmptyText /\ results[1].bid # EmptyText
  /\ results[1].mid # EmptyText

\* the same token with the batches merged in the order of submission
C32_WitnessInOrder ==
  /\ ppc = "done" /\ token_outcomes = <<"t1">> /\ batch_size = 1
  /\ Len(all_raw_responses) = 2 /\ all_raw_responses[1].batch_num = 0
  /\ results[1].ask # EmptyText /\ results[1].bid # EmptyText

\* a token whose SELL price never came back although no batch failed
C32_WitnessOneSide ==
  /\ ppc = "done" /\ token_outcomes = <<"t1">>
  /\ \A b \in DOMAIN fut : ~Failed(b)
  /\ results[1].status = "ok" /\ results[1].ask # EmptyText
  /\ results[1].bid = EmptyText /\ results[1].mid = EmptyText

----------------------------------------------------------------------------
(* Properties of an interrupted pricing stage *)

\* the files of the stages after pricing
AfterPricing == {"clob_batch", "prices_csv", "latest_csv", "manifest"}

\* a step taken after the interrupt: nothing is written or returned, and a
\* future changes only by the work of its worker
AfterInterrupt ==
  ppc \in {"unwinding", "interrupted"} =>
    /\ ppc' \in {"unwinding", "interrupted"}
    /\ r_pc' \in {"prices", "interrupted"}
    /\ UNCHANGED <<written, disk, manifest_json, manifest, results, stats,
                   prices_by_token, api_error_tokens, all_raw_responses>>
    /\ DOMAIN fut' = DOMAIN fut
    /\ \A b \in DOMAIN fut : fut'[b] # fut[b] =>
         /\ ppc = "unwinding"
         /\ Rank(fut[b].st) \in {0, 1}
         /\ Rank(fut'[b].st) \in {Rank(fut[b].st), Rank(fut[b].st) + 1}
         /\ fut'[b].st = "running" => fut'[b].attempt < MAX_RETRIES
         /\ fut'[b].st = "done" =>
              fut'[b].how \in {"returned", "raised", "exhausted"}

\* C33: from the interrupt on, the run writes nothing: no raw batch file,
\* prices table, latest copy or manifest, and it never returns results or
\* reaches the writing stage; while the call unwinds, a future changes only
\* by the work of its worker, which goes on to the next attempt or ends the
\* call with its outcome; and when the call has unwound no future is queued
\* or being worked on: each one has finished with an outcome or was never
\* submitted.
C33_InterruptStopsBeforeWriting ==
  /\ [][AfterInterrupt]_vars
  /\ [](ppc = "interrupted" =>
          /\ r_pc = "interrupted"
          /\ \A k \in 1..Len(written) : written[k] \notin AfterPricing
          /\ disk.prices_csv = Absent /\ disk.latest_csv = EarlierRun
          /\ manifest_json = NoManifest
          /\ \A b \in DOMAIN fut :
               /\ fut[b].st \in {"done", "merged"}
               /\ fut[b].how \in {"returned", "raised", "exhausted"})

\* the call has unwound with a batch that was finished by its worker and
\* never merged, after another one had been merged
C33_Witness ==
  /\ ppc = "interrupted"
  /\ \E b \in DOMAIN fut : fut[b].st = "done" /\ fut[b].how = "returned"
  /\ \E b \in DOMAIN fut : fut[b].st = "merged"

\* the interrupt found one batch in its second attempt and one still queued
C33_WitnessInFlight ==
  /\ ppc = "unwinding"
  /\ \E b \in DOMAIN fut : fut[b].st = "running" /\ fut[b].attempt = 1
  /\ \E b \in DOMAIN fut : fut[b].st = "queued"

----------------------------------------------------------------------------
(* Properties of the list coercion *)

\* The texts of JSON values of at most n characters, by the grammar:
\* an integer, a string literal, or an array of values separated by commas,
\* with blanks allowed after "[" and around the values.
Blank(n) == {[i \in 1..k |-> " "] : k \in 0..n}
NumTexts(n) == {[i \in 1..k |-> "1"] : k \in 1..n}
StrTexts(n) ==
  {<<"q">> \o c \o <<"q">> : c \in UNION {[1..k -> Chars \ {"q"}] : k \in 0..(n - 2)}}
RECURSIVE ValTexts(_), ArrTexts(_), BodyTexts(_)
ValTexts(n) == IF n < 1 THEN {} ELSE NumTexts(n) \cup StrTexts(n) \cup ArrTexts(n)
ArrTexts(n) ==
  IF n < 2 THEN {}
  ELSE {x \in {<<"[">> \o w \o <<"]">> : w \in Blank(n - 2)}
               \cup {<<"[">> \o w \o b \o <<"]">> : w \in Blank(n - 3), b \in BodyTexts(n - 2)} :
          Len(x) <= n}
BodyTexts(n) ==
  IF n < 1 THEN {}
  ELSE {x \in {v \o w : v \in ValTexts(n), w \in Blank(n - 1)}
               \cup {v \o w \o <<",">> \o w2 \o r :
                       v \in ValTexts(n - 2), w \in Blank(n - 3), w2 \in Blank(n - 3),
                       r \in BodyTexts(n - 2)} :
          Len(x) <= n}

\* the texts of at most MaxChars characters that are a JSON list
JsonListTexts == ArrTexts(MaxChars)

\* the text without the blanks that stand outside string literals
RECURSIVE Compact(_, _)
Compact(s, inside) ==
  IF s = <<>> THEN <<>>
  ELSE IF Head(s) = "q" THEN <<"q">> \o Compact(Tail(s), ~inside)
  ELSE IF Head(s) = " " /\ ~inside THEN Compact(Tail(s), inside)
  ELSE <<Head(s)>> \o Compact(Tail(s), inside)

Tight == [comma |-> <<",">>, inside |-> <<>>]

\* what the coercion is to give for the raw value v, for which the parsed
\* value p is stored; source is the list v was written from, if any
CoercedRight(v, p, source) ==
  /\ p.kind \in {"none", "list"}
  /\ v.kind = "list" => p = v
  /\ v.kind \notin {"list", "str"} => p = PyNone
  /\ source.kind = "list" => p = source
  /\ (v.kind = "str" /\ Len(v.text) <= MaxChars) =>
       (p.kind = "list" <=> Strip(v.text) \in JsonListTexts)
  /\ (v.kind = "str" /\ p.kind = "list") =>
       Compact(v.text, FALSE) = Encode(p, Tight)
  /\ ParseJsonStringField(p) = p

\* raw values that differ from a market's own
OtherRaw == {PyNone, PyStr(<<"[", "1", "]">>), PyList(<<PyStr(<<"a">>), PyNum(<<"1">>)>>)}

\* C34: the value stored for a field is None or a list: a native list is
\* stored as it is, a string that holds a JSON list (with blanks anywhere
\* JSON allows them, and around the text) gives that list, every other
\* string and every value of another type gives None; coercing the stored
\* value gives the stored value; and what extract_token_outcomes returns for
\* the market is what it returns when the raw fields are replaced by any
\* other values.
C34_CoercionListOrNull ==
  /\ c_pc \in {"parsed", "extracted"} =>
       /\ c_market.outcomes = c_outcomes /\ c_market.clobTokenIds = c_clobTokenIds
       /\ \E other \in Companions :
            \/ /\ c_clobTokenIds = other
               /\ CoercedRight(c_outcomes, c_market.outcomes_parsed, c_source)
               /\ CoercedRight(other, c_market.clobTokenIds_parsed, PyNone)
            \/ /\ c_outcomes = other
               /\ CoercedRight(c_clobTokenIds, c_market.clobTokenIds_parsed, c_source)
               /\ CoercedRight(other, c_market.outcomes_parsed, PyNone)
  /\ c_pc = "extracted" =>
       \A a, b \in OtherRaw :
         c_tokens = ExtractTokenOutcomes([c_market EXCEPT !.outcomes = a,
                                                          !.clobTokenIds = b])

\* a token list sent as text with blanks around it, beside native outcomes:
\* one token is extracted
C34_Witness ==
  /\ c_pc = "extracted"
  /\ c_clobTokenIds = PyStr(<<" ", "[", "q", "a", "q", "]", " ">>)
  /\ c_outcomes.kind = "list"
  /\ c_tokens = <<[token_id |-> <<"a">>, outcome |-> <<"a">>]>>

\* a text that starts like a list and is none: None is stored
C34_WitnessNotJson ==
  /\ c_pc = "parsed"
  /\ c_outcomes = PyStr(<<"[", "1", ",", "]">>)
  /\ c_market.outcomes_parsed = PyNone

\* a text that holds a JSON value other than a list
C34_WitnessNotList ==
  /\ c_pc = "parsed"
  /\ c_outcomes = PyStr(<<"q", "[", "]", "q">>)
  /\ c_market.outcomes_parsed = PyNone

----------------------------------------------------------------------------
(* Properties of the two limiters of a run *)

\* the client a thread works for, and the limiter made for that client
ClientOf(t) == IF t = 0 THEN "catalog" ELSE "price"
MadeFor(client) == IF client = "catalog" THEN "gamma" ELSE "clob"

\* thread t takes a step of wait() or of set_wait_until()
InLimiter(t) ==
  /\ th[t].pc \in {"wait_lock", "wait_sleep", "defer"}
  /\ th'[t].pc # th[t].pc

\* one second passes: every deadline comes one second nearer
Passing == lim' = [l \in DOMAIN lim |-> [lim[l] EXCEPT !.next_allowed = Earlier(@)]]

\* C35: a step of wait() or set_wait_until() taken by a thread of one client
\* leaves the limiter made for the other client as it is, deadline and
\* mutex; and a limiter changes, apart from the passing of time, only in
\* such a step of a thread of its own client.
C35_LimitersAreIndependent ==
  [][/\ \A t \in {x \in DOMAIN th : th'[x] # th[x]} :
          InLimiter(t) =>
            \A l \in DOMAIN lim : l # MadeFor(ClientOf(t)) => lim'[l] = lim[l]
     /\ \A l \in DOMAIN lim :
          lim'[l] # lim[l] =>
            \/ Passing
            \/ \E t \in DOMAIN th : InLimiter(t) /\ MadeFor(ClientOf(t)) = l]_vars

\* the price client's limiter was deferred by a rate-limit response while
\* the catalog client's deadline has long passed
C35_Witness ==
  /\ stage = "prices"
  /\ lim["clob"].next_allowed = MaxRetryAfter
  /\ hist["clob"].defer_left = MaxRetryAfter
  /\ lim["gamma"].next_allowed = 0

----------------------------------------------------------------------------
(* Properties of the token counters of the manifest *)

\* the results of the run that carry status st
WithStatus(st) == {k \in 1..Len(results) : results[k].status = st}

\* C36: when a run that is not dry returns, tokens_priced_ok,
\* tokens_missing_price and api_errors are the numbers of results with
\* status ok, missing_price and api_error, and they add up to tokens_total,
\* the length of the pricing input; when a dry run returns the three are 0
\* and tokens_total is the length of the pricing input it would have priced.
C36_TokenCountersPartitionInput ==
  r_pc = "done" =>
    /\ manifest.tokens_total = Len(all_token_outcomes)
    /\ IF dry_run
         THEN /\ manifest.tokens_priced_ok = 0
              /\ manifest.tokens_missing_price = 0
              /\ manifest.api_errors = 0
              /\ results = <<>>
         ELSE /\ Len(results) = Len(all_token_outcomes)
              /\ manifest.tokens_priced_ok = Cardinality(WithStatus("ok"))
              /\ manifest.tokens_missing_price = Cardinality(WithStatus("missing_price"))
              /\ manifest.api_errors = Cardinality(WithStatus("api_error"))
              /\ manifest.tokens_priced_ok + manifest.tokens_missing_price
                   + manifest.api_errors = manifest.tokens_total

\* a run returned with a token in error and a token without price
C36_Witness ==
  /\ r_pc = "done" /\ ~dry_run
  /\ manifest.tokens_total >= 2
  /\ manifest.tokens_missing_price > 0
  /\ manifest.api_errors > 0

\* a run returned with a priced token and a token without price
C36_WitnessPriced ==
  /\ r_pc = "done" /\ ~dry_run
  /\ manifest.tokens_priced_ok > 0
  /\ manifest.tokens_missing_price > 0

\* a dry run returned with tokens it would have priced
C36_WitnessDry ==
  /\ r_pc = "done" /\ dry_run
  /\ manifest.tokens_total = 2

----------------------------------------------------------------------------
(* Properties of the api_error status *)

\* the batches that carry an item of token t
BatchesOf(t) == {b \in DOMAIN fut : t \in BatchTokens(b)}

\* batch b was collected and its outcome was a failure
MergedFailed(b) == fut[b].st = "merged" /\ Failed(b)

\* batch b was collected and finished with status 200 and a body that merged
MergedFine(b) == fut[b].st = "merged" /\ ~Failed(b)

\* C37: a token id is flagged only when a collected batch that carries one of
\* its items finished with a status other than 200 or raised, in the worker or
\* while its body was merged; so in the returned results a token is api_error
\* only if one of its batches failed, and a token all of whose batches
\* finished 200 and were merged is ok or missing_price, missing_price when
\* none of them delivered a non-empty price.
C37_ApiErrorOnlyFromFailedBatch ==
  /\ \A t \in api_error_tokens : \E b \in BatchesOf(t) : MergedFailed(b)
  /\ ppc = "done" =>
       \A i \in 1..Len(results) :
         LET t == results[i].token_id
         IN /\ results[i].status = "api_error" => \E b \in BatchesOf(t) : Failed(b)
            /\ (\A b \in BatchesOf(t) : MergedFine(b)) =>
                 /\ results[i].status # "api_error"
                 /\ ~HasPrice(t) => results[i].status = "missing_price"

\* a token is api_error with one batch failed and its other batch fine
C37_Witness ==
  /\ ppc = "done"
  /\ \E i \in 1..Len(results) :
       /\ results[i].status = "api_error"
       /\ \E b1, b2 \in BatchesOf(results[i].token_id) :
            Failed(b1) /\ fut[b1].how = "returned" /\ MergedFine(b2)

\* a token whose batches all finished 200 with nothing is missing_price
C37_WitnessEmpty ==
  /\ ppc = "done"
  /\ \E i \in 1..Len(results) :
       /\ results[i].status = "missing_price"
       /\ \A b \in BatchesOf(results[i].token_id) :
            MergedFine(b) /\ fut[b].data = EmptyDict

\* a token is api_error because the body of a 200 could not be merged
C37_WitnessMerging ==
  /\ ppc = "done"
  /\ \E i \in 1..Len(results) :
       /\ results[i].status = "api_error"
       /\ \A b \in BatchesOf(results[i].token_id) :
            Failed(b) => fut[b].status = 200 /\ ~fut[b].isdict

----------------------------------------------------------------------------
(* Properties of the statuses the retry loops do not name *)

\* a response with a status that is neither 200, 429 nor 5xx
OtherStatus(r) == ~r.err /\ r.status # 200 /\ r.status # 429 /\ r.status < 500
ClientError(r) == OtherStatus(r) /\ r.status \in 400..499

\* C38 as stated: whenever the catalog client's loop is left with a status
\* that is neither 200, 429 nor 5xx, it is left by an exception.
C38_CatalogRaisesOnEveryOtherStatus ==
  th[0].status \notin {0, 200} => th[0].pc = "raised"

\* the steps of thread t that C38 is about
EndsTheLoop(t) ==
  /\ (th[t].pc = "post" /\ th'[t].pc # "post") =>
       /\ \A r \in {x \in TimedResponses : OtherStatus(x)} :
            LET h == Handle(t, r, th[t].attempt)
            IN /\ h.status = r.status
               /\ h.data = EmptyDict
               /\ h.act = IF t = 0 /\ ClientError(r) THEN "raise" ELSE "return"
       /\ th'[t].pc \in {"returned", "raised"} =>
            /\ th'[t].posts = th[t].posts + 1
            /\ th'[t].attempt = th[t].attempt
  /\ th[t].pc \in {"returned", "raised"} =>
       /\ th'[t] = IdleThread
       /\ (t = 0 /\ th[t].pc = "raised") => stage' = "aborted"
       /\ (t = 0 /\ th[t].pc = "returned") => stage' = stage

\* C38, amended: a response that is neither 200, 429 nor 5xx ends the retry
\* loop on the attempt that received it, whatever the number of attempts
\* left: the price client returns the received status with an empty payload,
\* the catalog client raises when the status is a 4xx, which ends the run
\* with no further request, and returns the response when it is another 2xx.
C38_OtherStatusEndsTheLoop ==
  /\ [](/\ th[0].status \in 400..499 => th[0].pc = "raised"
        /\ th[0].status \in 200..299 => th[0].pc = "returned"
        /\ stage = "aborted" => \A t \in DOMAIN th : th[t] = IdleThread)
  /\ [][\A t \in {x \in DOMAIN th : th'[x] # th[x]} : EndsTheLoop(t)]_vars

\* the catalog client raised on a 404 to its first request
C38_Witness ==
  /\ th[0].pc = "raised" /\ th[0].status = 404
  /\ th[0].attempt = 0 /\ th[0].posts = 1

\* the run ended on the catalog client's exception, with pages left to fetch
C38_WitnessAborted ==
  stage = "aborted" /\ th[0] = IdleThread /\ pagesLeft > 0

\* a worker left its loop by a return on its second request, with an attempt left
C38_WitnessWorker ==
  \E t \in Workers : th[t].pc = "returned" /\ th[t].attempt = 1 /\ th[t].posts = 2

----------------------------------------------------------------------------
(* Termination of the pricing stage *)

\* thread t is inside wait() or set_wait_until()
InRateLimiter(t) == th[t].pc \in {"wait_lock", "wait_sleep", "defer"}

\* thread t is working on a batch
Busy(t) == th[t].pc # "idle"

\* C39: under fair scheduling and a fairly granted mutex, whatever the
\* service answers, once the batches are submitted the pool is eventually
\* joined with every batch taken and finished; every worker that took a batch
\* becomes free again, and no worker stays in wait() or set_wait_until()
\* forever.
C39_PricingTerminates ==
  /\ (stage = "prices") ~> (stage = "done")
  /\ [](stage = "done" => queue = 0 /\ \A t \in Workers : ~Busy(t))
  /\ \A t \in 1..MaxConc :
       /\ Busy(t) ~> ~Busy(t)
       /\ InRateLimiter(t) ~> ~InRateLimiter(t)

\* a worker sleeps in wait() before its third attempt, holding the mutex,
\* while another worker waits for the mutex
C39_Witness ==
  /\ stage = "prices"
  /\ \E t, u \in Workers :
       /\ th[t].pc = "wait_sleep" /\ th[t].attempt = 2 /\ th[t].wake > 0
       /\ th[u].pc = "wait_lock"

----------------------------------------------------------------------------
(* Properties of get_sports_markets *)

\* the sports markets among those received so far, in the order received
SportsReceived == SelectSeq(KReceived(k_pages), is_sport_market)

\* the cursor of the page received last
LastCursor == k_pages[Len(k_pages)].cursor

\* the call is over
KOver == k_pc \in {"returned", "raised", "exhausted"}

\* the steps of a call of get_sports_markets
KSequential ==
  /\ k_pages' # k_pages =>
       /\ k_pc = "request"
       /\ Len(k_pages') = Len(k_pages) + 1
       /\ SubSeq(k_pages', 1, Len(k_pages)) = k_pages
  /\ k_params' # k_params => k_pc \in {"called", "top"} /\ k_pc' = "request"
  /\ KOver => kvars' = kvars

\* C40: for limit >= 1 the pages are requested one after the other, the
\* first without a cursor and every further one with the cursor of the page
\* before it, and a further page is requested only if that page carried a
\* cursor and fewer than limit sports markets were accepted so far; the list
\* returned is the first limit sports markets received, in the order
\* received, or all of them if they are fewer; a page whose three attempts
\* all end in a retry makes the call raise, and a call that raised returns
\* nothing.
C40_FollowsCursorUpToLimit ==
  /\ [](/\ k_pc = "request" =>
             /\ k_attempt < KALSHI_ATTEMPTS
             /\ IF k_pages = <<>>
                  THEN k_params = KParams(NoCursor)
                  ELSE /\ HasCursor(LastCursor)
                       /\ k_params = KParams(LastCursor)
                       /\ Len(SportsReceived) < k_limit
        /\ k_pc = "returned" =>
             /\ Len(k_result) <= k_limit
             /\ \A i \in 1..Len(k_result) : is_sport_market(k_result[i])
             /\ Len(k_result) = IF Len(SportsReceived) < k_limit
                                  THEN Len(SportsReceived) ELSE k_limit
             /\ k_result = SubSeq(SportsReceived, 1, Len(k_result))
        /\ (k_pc = "exhausted") <=> (k_attempt = KALSHI_ATTEMPTS)
        /\ k_pc \in {"raised", "exhausted"} => k_result = <<>>)
  /\ [][KSequential]_vars

\* a call returned limit markets from two pages, having skipped a market
\* that is no sports market
C40_Witness ==
  /\ k_pc = "returned" /\ k_limit = 2 /\ Len(k_result) = 2
  /\ Len(k_pages) = 2
  /\ Len(KReceived(k_pages)) = 3
  /\ k_result[1] # k_result[2]

\* a call returned fewer sports markets than the page that reached the limit
\* brought
C40_WitnessCut ==
  /\ k_pc = "returned"
  /\ Len(k_result) = k_limit /\ Len(SportsReceived) > k_limit
  /\ HasCursor(LastCursor)

\* the second page used up its three attempts
C40_WitnessExhausted ==
  k_pc = "exhausted" /\ Len(k_pages) = 1 /\ k_all_markets # <<>>

====
